---- MODULE Spec2Model ----
(***************************************************************************)
(* Model of the ELIFANT-Event event-building pipeline:                     *)
(*   - L1EventBuilder::DataReader (chunked coincidence grouping), as in    *)
(*     the chunked version of L1EventBuilder.cpp;                          *)
(*   - L2EventBuilder::ProcessData with the L2Counter / L2Flag /           *)
(*     L2DataAcceptance rule classes of L2Conditions.hpp.                  *)
(* Timestamps are integers in ns.  The raw FineTS values of the modelled   *)
(* input are multiples of 1000 ps, so FineTS / 1000. is exact.             *)
(***************************************************************************)
EXTENDS Integers, Sequences, FiniteSets, TLC

(***************************************************************************)
(* Bounds of the model.                                                    *)
(***************************************************************************)
MaxEntries1 == 3   \* entries of the first input file
MaxEntries2 == 1   \* entries of the second input file

(***************************************************************************)
(* Settings.  CHUNK_SIZE and OVERLAP_SIZE are the constants of             *)
(* L1EventBuilder.hpp scaled down (10 000 000 and 10 000 in the source),   *)
(* keeping OVERLAP_SIZE < CHUNK_SIZE.                                      *)
(***************************************************************************)
CHUNK_SIZE == 2
OVERLAP_SIZE == 1
fCoincidenceWindow == 1
fRefMod == 0
fRefCh == 0

(***************************************************************************)
(* Channel settings (ChSettings.hpp): module 0 has two trigger channels,   *)
(* module 1 one non-trigger channel that is the anti-coincidence partner   *)
(* of channel (0,0).                                                       *)
(***************************************************************************)
ChSetting(trig, id, thr, ac, acm, acc, tags) ==
  [isEventTrigger |-> trig, ID |-> id, thresholdADC |-> thr,
   hasAC |-> ac, ACMod |-> acm, ACCh |-> acc, tags |-> tags]

fChSettingsVec ==
  [m \in {0, 1} |->
     IF m = 0
     THEN [c \in {0, 1} |->
             IF c = 0
             THEN ChSetting(TRUE, 0, 0, TRUE, 1, 0, {"E"})
             ELSE ChSetting(TRUE, 1, 0, FALSE, 0, 0, {"dE"})]
     ELSE [c \in {0} |-> ChSetting(FALSE, 2, 10, FALSE, 0, 0, {"AC", "E"})]]

\* Cable delay of a channel in ns, from which the offset table is derived.
ChannelDelay(m, c) == IF m = 0 /\ c = 1 THEN 1 ELSE 0

\* fTimeSettingsVec[refMod][refCh][mod][ch] as loaded by LoadTimeSettings.
fTimeSettingsVec ==
  [rm \in DOMAIN fChSettingsVec |->
     [rc \in DOMAIN fChSettingsVec[rm] |->
        [m \in DOMAIN fChSettingsVec |->
           [c \in DOMAIN fChSettingsVec[m] |->
              IF rm = m /\ rc = c THEN 0
              ELSE ChannelDelay(m, c) - ChannelDelay(rm, rc)]]]]

(***************************************************************************)
(* Input entries of the ELIADE_Tree: Mod, Ch, ChargeLong, ChargeShort,     *)
(* FineTS (ps).                                                            *)
(***************************************************************************)
Entry(m, c, q, t) ==
  [mod |-> m, ch |-> c, chargeLong |-> q, chargeShort |-> 0, fineTS |-> t]

EntryPool ==
  { Entry(0, 0, 20, 0), Entry(0, 0, 20, 1000),
    Entry(0, 1, 20, 2000),
    Entry(1, 0, 20, 0), Entry(1, 0, 20, 1000), Entry(1, 0, 20, 2000),
    Entry(1, 0, 10, 1000),
    Entry(2, 0, 20, 1000) }

RECURSIVE SeqsUpTo(_, _)
SeqsUpTo(S, n) ==
  IF n = 0 THEN { <<>> }
  ELSE LET shorter == SeqsUpTo(S, n - 1)
       IN  shorter \cup { Append(s, x) : s \in { q \in shorter : Len(q) = n - 1 }, x \in S }

\* A file that cannot be opened (zombie) or a readable tree of entries.
ZombieFile == [ok |-> FALSE, entries |-> <<>>]
GoodFile(es) == [ok |-> TRUE, entries |-> es]

(***************************************************************************)
(* Sorting: std::sort on fineTS.  For these short vectors it is an         *)
(* insertion sort, which keeps equal keys in their original order.         *)
(***************************************************************************)
RECURSIVE InsertByTS(_, _)
InsertByTS(s, x) ==
  IF s = <<>> THEN <<x>>
  ELSE IF x.fineTS < s[Len(s)].fineTS
       THEN Append(InsertByTS(SubSeq(s, 1, Len(s) - 1), x), s[Len(s)])
       ELSE Append(s, x)

\* The chunk as it was read, not sorted.
AsRead(s) == s

RECURSIVE SortByTS(_)
SortByTS(s) ==
  IF s = <<>> THEN <<>>
  ELSE InsertByTS(SortByTS(SubSeq(s, 1, Len(s) - 1)), s[Len(s)])

(***************************************************************************)
(* Reading a chunk.                                                        *)
(***************************************************************************)
Min(a, b) == IF a < b THEN a ELSE b

ReadStart(chunkStart) ==
  IF chunkStart > OVERLAP_SIZE THEN chunkStart - OVERLAP_SIZE ELSE 0

ReadEndNoTail(nEntries, chunkStart) == Min(nEntries, chunkStart + CHUNK_SIZE)
ReadEnd(nEntries, chunkStart) ==
  Min(nEntries, chunkStart + CHUNK_SIZE + OVERLAP_SIZE)

InBounds(m, c) ==
  /\ m \in DOMAIN fChSettingsVec
  /\ c \in DOMAIN fChSettingsVec[m]
  /\ m \in DOMAIN fTimeSettingsVec[fRefMod][fRefCh]
  /\ c \in DOMAIN fTimeSettingsVec[fRefMod][fRefCh][m]

Kept(e) ==
  /\ InBounds(e.mod, e.ch)
  /\ e.chargeLong > fChSettingsVec[e.mod][e.ch].thresholdADC

CorrectedTS(e) ==
  (e.fineTS \div 1000) - fTimeSettingsVec[fRefMod][fRefCh][e.mod][e.ch]

\* The RawData_t built from a kept entry; src = <<file, entry index>> is a
\* history field that identifies the entry the hit was read from.
RawData(e, f, i) ==
  [isWithAC |-> FALSE, mod |-> e.mod, ch |-> e.ch,
   chargeLong |-> e.chargeLong, chargeShort |-> e.chargeShort,
   fineTS |-> CorrectedTS(e), src |-> <<f, i>>]

\* As LoadRange, but the read loop ends at the first entry whose module or
\* channel is outside the settings.
RECURSIVE LoadRangeBreak(_, _, _, _)
LoadRangeBreak(entries, f, from, to) ==
  IF from >= to THEN <<>>
  ELSE LET e == entries[to]
           before == LoadRangeBreak(entries, f, from, to - 1)
       IN  IF /\ Kept(e)
              /\ \A k \in (from + 1)..(to - 1) : InBounds(entries[k].mod, entries[k].ch)
           THEN Append(before, RawData(e, f, to - 1))
           ELSE before

\* Entries iEve = from .. to-1 (0-based) of file f, filtered and corrected.
RECURSIVE LoadRange(_, _, _, _)
LoadRange(entries, f, from, to) ==
  IF from >= to THEN <<>>
  ELSE LET e == entries[to]
           before == LoadRange(entries, f, from, to - 1)
       IN  IF Kept(e) THEN Append(before, RawData(e, f, to - 1)) ELSE before

\* As LoadChunk, but the trailing OVERLAP_SIZE entries of the previous file
\* are carried into the first chunk of the next one.
LoadChunkCarry(files, f, readStart, readEnd) ==
  LET own == LoadRange(files[f].entries, f, readStart, readEnd)
  IN  IF f > 1 /\ readStart = 0 /\ files[f - 1].ok
      THEN LET n == Len(files[f - 1].entries)
           IN  LoadRange(files[f - 1].entries, f - 1,
                         IF n > OVERLAP_SIZE THEN n - OVERLAP_SIZE ELSE 0, n) \o own
      ELSE own

\* rawDataVec after the read loop of a chunk: only entries of the file at
\* hand (the overlap buffer is never merged into it).
LoadChunk(files, f, readStart, readEnd) ==
  LoadRange(files[f].entries, f, readStart, readEnd)

(***************************************************************************)
(* Coincidence grouping of one trigger hit (DataReader, trigger loop).     *)
(***************************************************************************)
IsTrigger(h) == fChSettingsVec[h.mod][h.ch].isEventTrigger
ChID(h) == fChSettingsVec[h.mod][h.ch].ID
Abs(x) == IF x < 0 THEN -x ELSE x

Absolute(h, triggerTime) == h
\* The hit as stored in the event: timestamp relative to the trigger time.
Relative(h, triggerTime) == [h EXCEPT !.fineTS = h.fineTS - triggerTime]

PastWindowStrict(ts) == ts >= fCoincidenceWindow
\* `if (ts > fCoincidenceWindow) break;` of the forward walk.
PastWindow(ts) == ts > fCoincidenceWindow

\* `if (ts < -fCoincidenceWindow) break;` of the backward walk.
BeforeWindow(ts) == ts < -fCoincidenceWindow

\* `isEventTrigger && id >= triggerID && ts < fCoincidenceWindow`
SkipForward(h, triggerID, ts) ==
  IsTrigger(h) /\ ChID(h) >= triggerID /\ ts < fCoincidenceWindow

\* `isEventTrigger && id >= triggerID && ts > -fCoincidenceWindow`
SkipBackward(h, triggerID, ts) ==
  IsTrigger(h) /\ ChID(h) >= triggerID /\ ts > -fCoincidenceWindow

\* for (jEve = iEve + 1; jEve < nRawData && fillFlag; jEve++)
RECURSIVE ForwardWalk(_, _, _, _)
ForwardWalk(buf, i, j, acc) ==
  IF j > Len(buf) \/ ~acc.fillFlag THEN acc
  ELSE LET ts == buf[j].fineTS - buf[i].fineTS
       IN  IF PastWindow(ts) THEN acc
           ELSE IF SkipForward(buf[j], ChID(buf[i]), ts)
                THEN [acc EXCEPT !.fillFlag = FALSE]
                ELSE ForwardWalk(buf, i, j + 1,
                       [acc EXCEPT !.hits = Append(@, Relative(buf[j], buf[i].fineTS))])

\* for (jEve = iEve - 1; jEve >= 0 && fillFlag; jEve--)
RECURSIVE BackwardWalk(_, _, _, _)
BackwardWalk(buf, i, j, acc) ==
  IF j < 1 \/ ~acc.fillFlag THEN acc
  ELSE LET ts == buf[j].fineTS - buf[i].fineTS
       IN  IF BeforeWindow(ts) THEN acc
           ELSE IF SkipBackward(buf[j], ChID(buf[i]), ts)
                THEN [acc EXCEPT !.fillFlag = FALSE]
                ELSE BackwardWalk(buf, i, j - 1,
                       [acc EXCEPT !.hits = Append(@, Relative(buf[j], buf[i].fineTS))])

ACInWindowClosed(ts) == Abs(ts) <= fCoincidenceWindow
\* `fabs(ac.fineTS) < fCoincidenceWindow`
ACInWindow(ts) == Abs(ts) < fCoincidenceWindow

\* The "Check AC" loop over the hits of the event.
CheckAC(hits) ==
  [k \in 1..Len(hits) |->
     LET h == hits[k]
     IN  IF /\ h.mod \in DOMAIN fChSettingsVec
            /\ h.ch \in DOMAIN fChSettingsVec[h.mod]
            /\ fChSettingsVec[h.mod][h.ch].hasAC
            /\ \E a \in 1..Len(hits) :
                 /\ hits[a].mod = fChSettingsVec[h.mod][h.ch].ACMod
                 /\ hits[a].ch = fChSettingsVec[h.mod][h.ch].ACCh
                 /\ ACInWindow(hits[a].fineTS)
         THEN [h EXCEPT !.isWithAC = TRUE]
         ELSE h]

KeepHits(eventDataVec) == eventDataVec
\* EventData::Clear on eventDataVec: eventDataVec->clear().
Clear(eventDataVec) == << >>

RECURSIVE BuildOne(_, _)
RECURSIVE EventDataAt(_, _)

\* eventData.eventDataVec when the trigger loop reaches buf[i]: as
\* constructed, or as the `eventData.Clear()` that ends the block of the
\* last trigger hit before buf[i] has left it.
EventDataAt(buf, i) ==
  IF i = 1 THEN << >>
  ELSE IF IsTrigger(buf[i - 1]) THEN Clear(BuildOne(buf, i - 1).left)
  ELSE EventDataAt(buf, i - 1)

\* The event built for the trigger hit buf[i]: fillFlag tells whether it is
\* filled into the output tree, left is what eventData.eventDataVec holds
\* at the end of the block, before it is cleared.
BuildOne(buf, i) ==
  LET first == [fillFlag |-> TRUE,
                hits |-> Append(Clear(EventDataAt(buf, i)),
                                Relative(buf[i], buf[i].fineTS))]
      fwd == ForwardWalk(buf, i, i + 1, first)
      bwd == BackwardWalk(buf, i, i - 1, fwd)
      sorted == << bwd.hits[1] >> \o SortByTS(SubSeq(bwd.hits, 2, Len(bwd.hits)))
  IN  [fillFlag |-> bwd.fillFlag,
       triggerTime |-> buf[i].fineTS,
       eventDataVec |-> IF bwd.fillFlag THEN CheckAC(sorted) ELSE <<>>,
       left |-> IF bwd.fillFlag THEN CheckAC(sorted) ELSE bwd.hits]

\* The events filled while walking iEve = from..Len(buf) over the sorted
\* chunk: every hit of the vector that belongs to a trigger channel starts
\* an event.
RECURSIVE EventsFrom(_, _)
EventsFrom(buf, from) ==
  IF from > Len(buf) THEN <<>>
  ELSE LET rest == EventsFrom(buf, from + 1)
       IN  IF IsTrigger(buf[from])
           THEN LET ev == BuildOne(buf, from)
                IN  IF ev.fillFlag
                    THEN << [triggerTime |-> ev.triggerTime,
                             eventDataVec |-> ev.eventDataVec] >> \o rest
                    ELSE rest
           ELSE rest

ProcessChunk(buf) == EventsFrom(buf, 1)

\* The event as stored in the tree: RawData_t has no src field.
StripHit(h) ==
  [isWithAC |-> h.isWithAC, mod |-> h.mod, ch |-> h.ch,
   chargeLong |-> h.chargeLong, chargeShort |-> h.chargeShort,
   fineTS |-> h.fineTS]
StripEvent(ev) ==
  [triggerTime |-> ev.triggerTime,
   eventDataVec |-> [k \in 1..Len(ev.eventDataVec) |-> StripHit(ev.eventDataVec[k])]]
StripAll(evs) == [k \in 1..Len(evs) |-> StripEvent(evs[k])]

(***************************************************************************)
(* State of an L1 run.                                                     *)
(***************************************************************************)
VARIABLES
  fFileList,      \* L1EventBuilder::fFileList, the input files
  nThreads,       \* argument of BuildEvent
  localFileList,  \* per worker: indices into fFileList of its files
  fCancelled,     \* L1EventBuilder::fCancelled
  pc,             \* per worker: position in DataReader
  iFile,          \* per worker: file loop index (0-based)
  chunkStart,     \* per worker: chunk loop variable
  overlapBuffer,  \* per worker: DataReader's overlapBuffer
  outputTree,     \* per worker: events filled into the output tree
  outputFile,     \* per worker: events written to L1_<id>.root
  chunkLog        \* history: per worker, the chunks processed so far

l1vars == << fFileList, nThreads, localFileList, fCancelled, pc, iFile,
             chunkStart, overlapBuffer, outputTree, outputFile, chunkLog >>

(***************************************************************************)
(* State of an L2 worker (L2EventBuilder::ProcessData).                    *)
(***************************************************************************)
VARIABLES
  l2Input,                 \* the events of the L1 file the worker reads
  fCancelledL2,            \* L2EventBuilder::fCancelled
  l2pc,                    \* position in ProcessData: "loop", "entry", "write", "done", "killed"
  l2iEve,                  \* event loop index (0-based)
  localCounterVec,         \* the worker's copy of the counters
  localFlagVec,            \* the worker's copy of the flags
  localDataAcceptanceVec,  \* the worker's copy of the acceptance rules
  l2OutputTree,            \* entries filled into the L2 output tree
  l2OutputFile,            \* entries written to L2_<id>.root
  l2Log                    \* history: what was done with each input event

l2vars == << l2Input, fCancelledL2, l2pc, l2iEve, localCounterVec,
             localFlagVec, localDataAcceptanceVec, l2OutputTree,
             l2OutputFile, l2Log >>

\* An L2Flag object driven through its public interface.
VARIABLES
  unitFlag,   \* the L2Flag object
  unitLog     \* history: one record per call of L2Flag::Check

unitvars == << unitFlag, unitLog >>

\* TimeAlignment.
VARIABLES
  taFiles,            \* contents of the files named in the file list
  taFileList,         \* TimeAlignment::fFileList, the files not yet claimed
  fDataProcessFlag,   \* TimeAlignment::fDataProcessFlag
  taCancelled,        \* TimeAlignment::fCancelled
  taPc,               \* per worker: position in DataProcess
  taFileName,         \* per worker: fileName, the claimed file (0: none)
  taChunkStart,       \* per worker: chunkStart
  fThreadHistograms,  \* per worker: histoTime and histoADC
  fHisto,             \* fHistoTime and fHistoADC
  taStage,            \* "fill", "saved", "calculated", "loaded"
  taSavedFile,        \* the time histograms written to timeAlignment.root
  timeSettingsJSON,   \* timeSettings.json
  l1TimeSettings,     \* L1EventBuilder::fTimeSettingsVec after loading it
  taClaimLog,         \* history: per worker, the files it claimed
  taJoined            \* history: fThreadHistograms when the workers joined

tavars == << taFiles, taFileList, fDataProcessFlag, taCancelled, taPc, taFileName,
             taChunkStart, fThreadHistograms, fHisto, taStage, taSavedFile,
             timeSettingsJSON, l1TimeSettings, taClaimLog, taJoined >>

\* L2 run on the file a previous L2 run has written.
VARIABLES
  l2InputTreeName,  \* name of the TTree the input file of ProcessData holds
  l2Run,            \* 0: a single run; 1, 2: first and second run of a chain
  l2FirstOutput     \* history: the entries the first run has written

chainvars == << l2InputTreeName, l2Run, l2FirstOutput >>

\* One run of the executable, from main() to the end of the process.
VARIABLES
  buildType,      \* the stage the command line selects: "Time", "L1", "L2"
  nThread,        \* main's int nThread
  mainEnv,        \* what the run finds in settings.json, on disk and on the machine
  mainPc,         \* "idle", "settings", "files", "stage", "workers", "exited", "aborted", "killed"
  nLaunched,      \* history: worker threads the stage has started
  mainRaised,     \* the exception that left main, "none" if there is none
  mainCancelled,  \* SIGINT arrived while the workers ran
  exitCode        \* the value main returned, read when mainPc = "exited"

mainvars == << buildType, nThread, mainEnv, mainPc, nLaunched, mainRaised,
               mainCancelled, exitCode >>

\* An L2EventBuilder between its construction and BuildEvent.
VARIABLES
  fCounterVec,         \* L2EventBuilder::fCounterVec
  fFlagVec,            \* L2EventBuilder::fFlagVec
  fDataAcceptanceVec,  \* L2EventBuilder::fDataAcceptanceVec
  loadLog              \* history: one record per call of LoadL2Settings

loadvars == << fCounterVec, fFlagVec, fDataAcceptanceVec, loadLog >>

vars == << l1vars, l2vars, unitvars, tavars, chainvars, mainvars, loadvars >>

\* What the steps of one component leave alone.
l1rest == << l2vars, unitvars, tavars, chainvars, mainvars, loadvars >>
l2rest == << l1vars, unitvars, tavars, chainvars, mainvars, loadvars >>
unitrest == << l1vars, l2vars, tavars, chainvars, mainvars, loadvars >>
tarest == << l1vars, l2vars, unitvars, chainvars, mainvars, loadvars >>
mainrest == << l1vars, l2vars, unitvars, tavars, chainvars, loadvars >>
loadrest == << l1vars, l2vars, unitvars, tavars, chainvars, mainvars >>

Workers == 0..(nThreads - 1)

FilesPerThreadEven(nFiles, n, iThread) == nFiles \div n
\* BuildEvent, "make local file list": worker iThread gets a block of
\* size / nThreads files, the first size % nThreads workers one more.
FilesPerThread(nFiles, n, iThread) ==
  (nFiles \div n) + (IF iThread < nFiles % n THEN 1 ELSE 0)

\* A start index that leaves out the files of the remainder.
FirstFileOfEven(nFiles, n, iThread) == iThread * (nFiles \div n)

RECURSIVE FirstFileOf(_, _, _)
FirstFileOf(nFiles, n, iThread) ==
  IF iThread = 0 THEN 0
  ELSE FirstFileOf(nFiles, n, iThread - 1) + FilesPerThread(nFiles, n, iThread - 1)

MakeLocalFileList(nFiles, n) ==
  [w \in 0..(n - 1) |->
     [k \in 1..FilesPerThread(nFiles, n, w) |-> FirstFileOf(nFiles, n, w) + k]]

InputFiles1 == { GoodFile(es) : es \in SeqsUpTo(EntryPool, MaxEntries1) } \cup { ZombieFile }
InputFiles2 == { GoodFile(es) : es \in SeqsUpTo(EntryPool, MaxEntries2) } \cup { ZombieFile }

L1Start(files, n) ==
  /\ fFileList = files
  /\ nThreads = n
  /\ localFileList = MakeLocalFileList(Len(files), n)
  /\ fCancelled = FALSE
  /\ pc = [w \in 0..(n - 1) |-> "file"]
  /\ iFile = [w \in 0..(n - 1) |-> 0]
  /\ chunkStart = [w \in 0..(n - 1) |-> 0]
  /\ overlapBuffer = [w \in 0..(n - 1) |-> <<>>]
  /\ outputTree = [w \in 0..(n - 1) |-> <<>>]
  /\ outputFile = [w \in 0..(n - 1) |-> <<>>]
  /\ chunkLog = [w \in 0..(n - 1) |-> <<>>]

\* A builder that was given nothing to do.
L1Idle == L1Start(<< >>, 0)

UnitIdle == unitFlag = << >> /\ unitLog = << >>

TAIdle ==
  /\ taFiles = << >>
  /\ taFileList = << >>
  /\ fDataProcessFlag = FALSE
  /\ taCancelled = FALSE
  /\ taPc = << >>
  /\ taFileName = << >>
  /\ taChunkStart = << >>
  /\ fThreadHistograms = << >>
  /\ fHisto = << >>
  /\ taStage = "idle"
  /\ taSavedFile = << >>
  /\ timeSettingsJSON = << >>
  /\ l1TimeSettings = << >>
  /\ taClaimLog = << >>
  /\ taJoined = << >>

\* No L2EventBuilder is looked at before its BuildEvent.
LoadIdle ==
  /\ fCounterVec = << >>
  /\ fFlagVec = << >>
  /\ fDataAcceptanceVec = << >>
  /\ loadLog = << >>

\* No run of main() is looked at.
MainIdle ==
  /\ buildType = "Init"
  /\ nThread = 0
  /\ mainEnv = << >>
  /\ mainPc = "idle"
  /\ nLaunched = 0
  /\ mainRaised = "none"
  /\ mainCancelled = FALSE
  /\ exitCode = 0

\* The input of a single L2 run is an L1 output file.
ChainIdle ==
  /\ l2InputTreeName = "L1EventData"
  /\ l2Run = 0
  /\ l2FirstOutput = << >>

L2Idle ==
  /\ ChainIdle
  /\ l2Input = <<>>
  /\ fCancelledL2 = FALSE
  /\ l2pc = "done"
  /\ l2iEve = 0
  /\ localCounterVec = <<>>
  /\ localFlagVec = <<>>
  /\ localDataAcceptanceVec = <<>>
  /\ l2OutputTree = <<>>
  /\ l2OutputFile = <<>>
  /\ l2Log = <<>>

\* One worker reads two files one after the other.
InitL1 ==
  \E f1 \in InputFiles1, f2 \in InputFiles2 : L1Start(<< f1, f2 >>, 1) /\ L2Idle /\ UnitIdle /\ TAIdle /\ MainIdle /\ LoadIdle

CurFileIndexShared(w) == iFile[w] + 1
\* fileList[iFile] of the worker's own list
CurFileIndex(w) == localFileList[w][iFile[w] + 1]
CurFile(w) == fFileList[CurFileIndex(w)]

\* Cancel() or the SIGINT handler.
L1Cancel ==
  /\ ~fCancelled
  /\ \E w \in Workers : pc[w] # "done"
  /\ fCancelled' = TRUE
  /\ UNCHANGED << fFileList, nThreads, localFileList, pc, iFile, chunkStart,
                  overlapBuffer, outputTree, outputFile, chunkLog >>
  /\ UNCHANGED l1rest

ReturnOnCancel(cancelled) == IF cancelled THEN "done" ELSE "write"
\* Where the reader goes on after the file loop, left by its condition or by
\* the `break` on cancellation: the statements behind the loop.
AfterFileLoop(cancelled) == "write"

\* File loop: all files done, or `if (fCancelled.load()) break;`.
L1LeaveFileLoop(w) ==
  /\ pc[w] = "file"
  /\ iFile[w] >= Len(localFileList[w]) \/ fCancelled
  /\ pc' = [pc EXCEPT ![w] = AfterFileLoop(fCancelled)]
  /\ UNCHANGED << fFileList, nThreads, localFileList, fCancelled, iFile,
                  chunkStart, overlapBuffer, outputTree, outputFile, chunkLog >>
  /\ UNCHANGED l1rest

StopAtOpenFailure(i, nFiles) == nFiles
\* The value of iFile the file loop goes on with after the `continue` of a
\* file that could not be opened.
AfterOpenFailure(i, nFiles) == i + 1

\* The file cannot be opened: `continue`.
L1SkipFile(w) ==
  /\ pc[w] = "file"
  /\ iFile[w] < Len(localFileList[w])
  /\ ~fCancelled
  /\ ~CurFile(w).ok
  /\ iFile' = [iFile EXCEPT ![w] = AfterOpenFailure(@, Len(localFileList[w]))]
  /\ UNCHANGED << fFileList, nThreads, localFileList, fCancelled, pc,
                  chunkStart, overlapBuffer, outputTree, outputFile, chunkLog >>
  /\ UNCHANGED l1rest

\* The file is opened; overlapBuffer is declared (empty) for this file.
L1OpenFile(w) ==
  /\ pc[w] = "file"
  /\ iFile[w] < Len(localFileList[w])
  /\ ~fCancelled
  /\ CurFile(w).ok
  /\ overlapBuffer' = [overlapBuffer EXCEPT ![w] = <<>>]
  /\ chunkStart' = [chunkStart EXCEPT ![w] = 0]
  /\ pc' = [pc EXCEPT ![w] = "chunk"]
  /\ UNCHANGED << fFileList, nThreads, localFileList, fCancelled, iFile,
                  outputTree, outputFile, chunkLog >>
  /\ UNCHANGED l1rest

\* `if (fCancelled.load()) { ... break; }` at the head of the chunk loop.
ChunkLoopCancelled == fCancelled

\* One iteration of the chunk loop: read, sort, build and fill the events.
L1Chunk(w) ==
  /\ pc[w] = "chunk"
  /\ chunkStart[w] < Len(CurFile(w).entries)
  /\ ~ChunkLoopCancelled
  /\ LET nEntries == Len(CurFile(w).entries)
         readStart == ReadStart(chunkStart[w])
         readEnd == ReadEnd(nEntries, chunkStart[w])
         rawDataVec == SortByTS(LoadChunk(fFileList, CurFileIndex(w), readStart, readEnd))
         events == ProcessChunk(rawDataVec)
     IN  /\ outputTree' = [outputTree EXCEPT ![w] = @ \o StripAll(events)]
         /\ chunkLog' = [chunkLog EXCEPT ![w] =
                           Append(@, [file |-> CurFileIndex(w),
                                      chunkStart |-> chunkStart[w],
                                      overlap |-> overlapBuffer[w],
                                      rawDataVec |-> rawDataVec,
                                      events |-> events])]
  /\ chunkStart' = [chunkStart EXCEPT ![w] = @ + CHUNK_SIZE]
  /\ UNCHANGED << fFileList, nThreads, localFileList, fCancelled, pc, iFile,
                  overlapBuffer, outputFile >>
  /\ UNCHANGED l1rest

\* The chunk loop ends (all chunks done, or cancelled): overlapBuffer is
\* cleared and the file loop goes on.
L1CloseFile(w) ==
  /\ pc[w] = "chunk"
  /\ chunkStart[w] >= Len(CurFile(w).entries) \/ ChunkLoopCancelled
  /\ overlapBuffer' = [overlapBuffer EXCEPT ![w] = <<>>]
  /\ iFile' = [iFile EXCEPT ![w] = @ + 1]
  /\ pc' = [pc EXCEPT ![w] = "file"]
  /\ UNCHANGED << fFileList, nThreads, localFileList, fCancelled, chunkStart,
                  outputTree, outputFile, chunkLog >>
  /\ UNCHANGED l1rest

\* outputTree->Write() at the end of DataReader.
L1Write(w) ==
  /\ pc[w] = "write"
  /\ outputFile' = [outputFile EXCEPT ![w] = outputTree[w]]
  /\ pc' = [pc EXCEPT ![w] = "done"]
  /\ UNCHANGED << fFileList, nThreads, localFileList, fCancelled, iFile,
                  chunkStart, overlapBuffer, outputTree, chunkLog >>
  /\ UNCHANGED l1rest

(***************************************************************************)
(* L2 rule classes (L2Conditions.hpp) and the rule set built by            *)
(* LoadL2Settings.                                                         *)
(***************************************************************************)
MaxL2Hits == 2     \* hits of an L2 input event
MaxL2Events == 2   \* events of the L2 input file
MaxRules == 2      \* acceptance rules of the settings file

\* conditionTable of a counter: channel (i, j) counts when one of the
\* counter's tags is among the channel's tags.
ConditionTable(tags) ==
  [i \in DOMAIN fChSettingsVec |->
     [j \in DOMAIN fChSettingsVec[i] |-> (tags \cap fChSettingsVec[i][j].tags) # {}]]

L2Counter(name, tags) ==
  [name |-> name, counter |-> 0, fConditionTable |-> ConditionTable(tags)]
L2Flag(name, monitorName, condition, value) ==
  [name |-> name, flag |-> FALSE, fMonitorName |-> monitorName,
   fCondition |-> condition, fValue |-> value]
L2DataAcceptance(monitorVec, logicalOperator) ==
  [fMonitorVec |-> monitorVec, fLogicalOperator |-> logicalOperator]

\* L2Counter::Check
CounterCheck(c, mod, ch) ==
  IF /\ mod \in DOMAIN c.fConditionTable
     /\ ch \in DOMAIN c.fConditionTable[mod]
     /\ c.fConditionTable[mod][ch]
  THEN [c EXCEPT !.counter = @ + 1]
  ELSE c

KeepCounter(c) == c
\* L2Counter::ResetCounter
ResetCounter(c) == [c EXCEPT !.counter = 0]

RECURSIVE CheckHits(_, _, _)
CheckHits(c, hits, k) ==
  IF k > Len(hits) THEN c
  ELSE CheckHits(CounterCheck(c, hits[k].mod, hits[k].ch), hits, k + 1)

\* ProcessData: `counter.ResetCounter(); for (rawData) counter.Check(...)`
CountEvent(counterVec, hits) ==
  [k \in 1..Len(counterVec) |-> CheckHits(ResetCounter(counterVec[k]), hits, 1)]

\* counterVal <op> fValue with counterVal a uint64_t and fValue an int32_t:
\* fValue is converted to uint64_t, so a negative fValue compares as a value
\* above every counter value of the model.
Compare(condition, counterVal, fValue) ==
  LET wraps == fValue < 0
  IN  CASE condition = "==" -> ~wraps /\ counterVal = fValue
        [] condition = "<"  -> wraps \/ counterVal < fValue
        [] condition = ">"  -> ~wraps /\ counterVal > fValue
        [] condition = "<=" -> wraps \/ counterVal <= fValue
        [] condition = ">=" -> ~wraps /\ counterVal >= fValue
        [] condition = "!=" -> wraps \/ counterVal # fValue
        [] OTHER -> FALSE

\* L2Flag::Check: flag = false, then every counter named fMonitorName sets it.
RECURSIVE FlagLoop(_, _, _, _)
FlagLoop(f, counterVec, k, flag) ==
  IF k > Len(counterVec) THEN flag
  ELSE FlagLoop(f, counterVec, k + 1,
                IF counterVec[k].name = f.fMonitorName
                THEN Compare(f.fCondition, counterVec[k].counter, f.fValue)
                ELSE flag)

FlagKept(f) == f.flag
\* `flag = false;` at the head of L2Flag::Check
FlagReset(f) == FALSE

FlagCheck(f, counterVec) ==
  [f EXCEPT !.flag = FlagLoop(f, counterVec, 1, FlagReset(f))]

CheckFlags(flagVec, counterVec) ==
  [k \in 1..Len(flagVec) |-> FlagCheck(flagVec[k], counterVec)]

\* L2DataAcceptance::Check
AcceptCheck(a, flagVec) ==
  IF a.fLogicalOperator = "AND"
  THEN IF \E m \in 1..Len(a.fMonitorVec), k \in 1..Len(flagVec) :
            flagVec[k].name = a.fMonitorVec[m] /\ ~flagVec[k].flag
       THEN FALSE
       ELSE TRUE
  ELSE IF a.fLogicalOperator = "OR"
       THEN IF \E m \in 1..Len(a.fMonitorVec), k \in 1..Len(flagVec) :
                 flagVec[k].name = a.fMonitorVec[m] /\ flagVec[k].flag
            THEN TRUE
            ELSE TRUE
       ELSE FALSE

AccumulateAnd(fillFlag, r) == fillFlag /\ r
\* `fillFlag |= accept.Check(localFlagVec)`
Accumulate(fillFlag, r) == fillFlag \/ r

RECURSIVE FillFlag(_, _, _, _)
FillFlag(acceptVec, flagVec, k, fillFlag) ==
  IF k > Len(acceptVec) THEN fillFlag
  ELSE FillFlag(acceptVec, flagVec, k + 1,
                Accumulate(fillFlag, AcceptCheck(acceptVec[k], flagVec)))

\* `if (eventData.eventDataVec->size() == 0) continue;`
IsEmptyEvent(hits) == Len(hits) = 0

(***************************************************************************)
(* L2 input and rule sets of the model.                                    *)
(***************************************************************************)
L2Hit(m, c) ==
  [isWithAC |-> FALSE, mod |-> m, ch |-> c, chargeLong |-> 20,
   chargeShort |-> 0, fineTS |-> 0]

L2HitPool == { L2Hit(0, 0), L2Hit(0, 1) }

L2Events ==
  { [triggerTime |-> 100, eventDataVec |-> hs] : hs \in SeqsUpTo(L2HitPool, MaxL2Hits) }

CounterVecs ==
  { << L2Counter("E_Counter", {"E"}), L2Counter("dE_Counter", {"dE", "Si"}) >> }

FlagVecs ==
  { << L2Flag("E_Pos", "E_Counter", ">", 0), L2Flag("dE_Pos", "dE_Counter", ">", 0) >>,
    << L2Flag("E_Pos", "E_Counter", "==", 2), L2Flag("dE_Pos", "dE_Counter", "<", -1) >>,
    << L2Flag("E_Pos", "NoCounter", ">=", 0), L2Flag("dE_Pos", "dE_Counter", "==", 0) >>,
    << >> }

AcceptRules ==
  { L2DataAcceptance(<< "E_Pos", "dE_Pos" >>, "AND"),
    L2DataAcceptance(<< "E_Pos", "dE_Pos" >>, "OR"),
    L2DataAcceptance(<< "NoFlag" >>, "AND"),
    L2DataAcceptance(<< >>, "AND"),
    L2DataAcceptance(<< "dE_Pos", "NoFlag" >>, "AND"),
    L2DataAcceptance(<< "NoFlag" >>, "OR"),
    L2DataAcceptance(<< "E_Pos" >>, "XOR") }

InitL2 ==
  /\ MainIdle
  /\ LoadIdle
  /\ ChainIdle
  /\ L1Idle
  /\ UnitIdle
  /\ TAIdle
  /\ l2Input \in SeqsUpTo(L2Events, MaxL2Events)
  /\ fCancelledL2 = FALSE
  /\ l2pc = "loop"
  /\ l2iEve = 0
  /\ localCounterVec \in CounterVecs
  /\ localFlagVec \in FlagVecs
  /\ localDataAcceptanceVec \in SeqsUpTo(AcceptRules, MaxRules)
  /\ l2OutputTree = <<>>
  /\ l2OutputFile = <<>>
  /\ l2Log = <<>>

\* Cancel() or the SIGINT handler, while the process runs.
L2Cancel ==
  /\ ~fCancelledL2
  /\ l2pc \notin { "done", "killed" }
  /\ fCancelledL2' = TRUE
  /\ UNCHANGED << l2Input, l2pc, l2iEve, localCounterVec, localFlagVec,
                  localDataAcceptanceVec, l2OutputTree, l2OutputFile, l2Log >>
  /\ UNCHANGED l2rest

\* The head of the event loop finds an entry left and the flag not set:
\* inputTree->GetEntry(iEve) starts.
L2GetEntry ==
  /\ l2pc = "loop"
  /\ l2iEve < Len(l2Input)
  /\ ~fCancelledL2
  /\ l2pc' = "entry"
  /\ UNCHANGED << l2Input, fCancelledL2, l2iEve, localCounterVec, localFlagVec,
                  localDataAcceptanceVec, l2OutputTree, l2OutputFile, l2Log >>
  /\ UNCHANGED l2rest

\* The event loop ends: all entries read, or `if (fCancelled.load()) break;`.
L2LeaveLoop ==
  /\ l2pc = "loop"
  /\ l2iEve >= Len(l2Input) \/ fCancelledL2
  /\ l2pc' = "write"
  /\ UNCHANGED << l2Input, fCancelledL2, l2iEve, localCounterVec, localFlagVec,
                  localDataAcceptanceVec, l2OutputTree, l2OutputFile, l2Log >>
  /\ UNCHANGED l2rest

\* The worker looked at is thread 0 of BuildEvent, the one that also prints
\* the progress estimate.
L2ThreadID == 0

\* Milliseconds from the entry of the event loop, or from the last progress
\* line, to the end of GetEntry(iEve).
ReadTimes == { 0, 1200 }

\* `threadID == 0 && iEve % 1000 == 0` and `duration.count() > 1000`.
ProgressDue(threadID, iEve, ms) ==
  threadID = 0 /\ iEve % 1000 = 0 /\ ms > 1000

\* `(nEntries - finishedEvents) * elapsed / finishedEvents` with
\* finishedEvents = iEve: an integer division, undefined for iEve = 0.
DividesByZero(threadID, iEve, ms) ==
  ProgressDue(threadID, iEve, ms) /\ iEve = 0

\* The division by zero traps: the process is killed inside the event loop,
\* the output tree is never written.
L2Killed ==
  /\ l2pc' = "killed"
  /\ UNCHANGED << l2Input, fCancelledL2, l2iEve, localCounterVec, localFlagVec,
                  localDataAcceptanceVec, l2OutputTree, l2OutputFile, l2Log >>
  /\ UNCHANGED l2rest

\* The entry is read.  An event without hits: `continue`.  When the
\* progress estimate divides by zero the step either traps or goes on.
L2SkipEmpty ==
  /\ l2pc = "entry"
  /\ IsEmptyEvent(l2Input[l2iEve + 1].eventDataVec)
  /\ \E ms \in ReadTimes :
       \/ /\ DividesByZero(L2ThreadID, l2iEve, ms)
          /\ L2Killed
       \/ /\ l2iEve' = l2iEve + 1
          /\ l2pc' = "loop"
          /\ l2Log' = Append(l2Log, [iEve |-> l2iEve, skipped |-> TRUE, filled |-> FALSE,
                                     counters |-> localCounterVec, flags |-> localFlagVec,
                                     accepts |-> <<>>])
          /\ UNCHANGED << l2Input, fCancelledL2, localCounterVec, localFlagVec,
                          localDataAcceptanceVec, l2OutputTree, l2OutputFile >>
          /\ UNCHANGED l2rest

\* An output entry whose EventDataVec branch is not the vector that was read.
L2EntryNoHits(ev, counterVec, flagVec) ==
  [triggerTime |-> ev.triggerTime, eventDataVec |-> << >>,
   counters |-> [k \in 1..Len(counterVec) |->
                   [name |-> counterVec[k].name, counter |-> counterVec[k].counter]],
   flags |-> [k \in 1..Len(flagVec) |->
                [name |-> flagVec[k].name, flag |-> flagVec[k].flag]]]

\* The output entry: the event with the branch values of flags and counters.
L2Entry(ev, counterVec, flagVec) ==
  [triggerTime |-> ev.triggerTime, eventDataVec |-> ev.eventDataVec,
   counters |-> [k \in 1..Len(counterVec) |->
                   [name |-> counterVec[k].name, counter |-> counterVec[k].counter]],
   flags |-> [k \in 1..Len(flagVec) |->
                [name |-> flagVec[k].name, flag |-> flagVec[k].flag]]]

\* The entry is read.  One event: counters, flags, acceptance, and Fill()
\* when accepted.  When the progress estimate divides by zero the step
\* either traps or goes on.
L2Event ==
  /\ l2pc = "entry"
  /\ ~IsEmptyEvent(l2Input[l2iEve + 1].eventDataVec)
  /\ \E ms \in ReadTimes :
       \/ /\ DividesByZero(L2ThreadID, l2iEve, ms)
          /\ L2Killed
       \/ /\ LET ev == l2Input[l2iEve + 1]
                 counters == CountEvent(localCounterVec, ev.eventDataVec)
                 flags == CheckFlags(localFlagVec, counters)
                 fillFlag == FillFlag(localDataAcceptanceVec, flags, 1, FALSE)
             IN  /\ localCounterVec' = counters
                 /\ localFlagVec' = flags
                 /\ l2OutputTree' = IF fillFlag
                                    THEN Append(l2OutputTree, L2Entry(ev, counters, flags))
                                    ELSE l2OutputTree
                 /\ l2Log' = Append(l2Log, [iEve |-> l2iEve, skipped |-> FALSE,
                                            filled |-> fillFlag,
                                            counters |-> counters, flags |-> flags,
                                            accepts |-> [k \in 1..Len(localDataAcceptanceVec) |->
                                                           AcceptCheck(localDataAcceptanceVec[k], flags)]])
          /\ l2iEve' = l2iEve + 1
          /\ l2pc' = "loop"
          /\ UNCHANGED << l2Input, fCancelledL2, localDataAcceptanceVec, l2OutputFile >>
          /\ UNCHANGED l2rest

\* outputTree->Write() at the end of ProcessData.
L2Write ==
  /\ l2pc = "write"
  /\ l2OutputFile' = l2OutputTree
  /\ l2pc' = "done"
  /\ UNCHANGED << l2Input, fCancelledL2, l2iEve, localCounterVec, localFlagVec,
                  localDataAcceptanceVec, l2OutputTree, l2Log >>
  /\ UNCHANGED l2rest

(***************************************************************************)
(* Specifications: an L1 run and an L2 run.                                *)
(***************************************************************************)
(***************************************************************************)
(* An L2Flag object checked against one counter vector after the other, as *)
(* a caller of the class may do.                                           *)
(***************************************************************************)
MaxChecks == 2    \* calls of L2Flag::Check on the object

UnitFlags ==
  { L2Flag("TestFlag", "Counter1", cond, v) :
      cond \in {"==", ">", "<"}, v \in {0, 1} }

\* L2Counter(name, counter): a counter constructed with a value.
L2CounterAt(name, v) == [L2Counter(name, {}) EXCEPT !.counter = v]

UnitCounterVecs ==
  { << >>,
    << L2CounterAt("Counter1", 0) >>,
    << L2CounterAt("Counter1", 1) >>,
    << L2CounterAt("Counter2", 1) >>,
    << L2CounterAt("Counter2", 0), L2CounterAt("Counter1", 1) >> }

InitFlag ==
  /\ MainIdle
  /\ LoadIdle
  /\ L1Idle
  /\ L2Idle
  /\ TAIdle
  /\ unitFlag \in UnitFlags
  /\ unitLog = << >>

\* flag.Check(counters)
L2FlagCheck ==
  /\ Len(unitLog) < MaxChecks
  /\ \E cv \in UnitCounterVecs :
       /\ unitFlag' = FlagCheck(unitFlag, cv)
       /\ unitLog' = Append(unitLog, [before |-> unitFlag.flag, counterVec |-> cv,
                                      after |-> FlagCheck(unitFlag, cv).flag])
  /\ UNCHANGED unitrest

NextFlag == L2FlagCheck

SpecFlag == InitFlag /\ [][NextFlag]_vars

(***************************************************************************)
(* TimeAlignment (TimeAlignment.cpp): workers pop files from a shared      *)
(* list, fill thread-local histograms, the histograms are merged and       *)
(* saved, and CalculateTimeAlignment writes the offset table.              *)
(* The channel types of the model are not rebinned, and no time difference *)
(* of the modelled input falls on a histogram edge.                        *)
(***************************************************************************)
MaxTAEntries == 2     \* entries of an input file of TimeAlignment

fTimeWindow == 3      \* SetTimeWindow, ns

\* TimeAlignment::fChSettingsVec: module 0 channel 0 is not a trigger,
\* module 0 channel 1 and module 1 channel 0 are.
taChSettingsVec ==
  [m \in {0, 1} |->
     IF m = 0
     THEN [c \in {0, 1} |->
             IF c = 0 THEN ChSetting(FALSE, 0, 10, FALSE, 0, 0, {})
             ELSE ChSetting(TRUE, 1, 0, FALSE, 0, 0, {})]
     ELSE [c \in {0} |-> ChSetting(TRUE, 2, 0, FALSE, 0, 0, {})]]

TAChannels == { << m, c >> : m \in {0, 1}, c \in {0, 1} } \ { << 1, 1 >> }

\* maxID of InitHistograms / FillHistograms: largest ID plus one.
TAMaxID == 3

TAEntryPool ==
  { Entry(0, 1, 20, 0), Entry(0, 1, 20, 1000), Entry(0, 0, 20, 1000),
    Entry(0, 0, 10, 1000), Entry(1, 0, 20, 5000), Entry(2, 0, 20, 0) }

\* TH2D(nBins = fTimeWindow, -fTimeWindow, fTimeWindow, maxID, 0, maxID):
\* x bin 0 is the underflow, nBins + 1 the overflow; the y bin of an ID is
\* ID + 1.
TANBins == fTimeWindow
TAXBins == 0..(TANBins + 1)
TimeBins == { << x, y >> : x \in TAXBins, y \in 1..TAMaxID }
ADCValues == { e.chargeLong : e \in TAEntryPool }

\* TAxis::FindBin
FindXBin(timeDiff) ==
  IF timeDiff < -fTimeWindow THEN 0
  ELSE IF timeDiff >= fTimeWindow THEN TANBins + 1
       ELSE 1 + ((timeDiff + fTimeWindow) * TANBins) \div (2 * fTimeWindow)

\* TAxis::GetBinCenter for the equal bins of width 2.
BinCenter(x) == -fTimeWindow + 2 * x - 1

EmptyTimeHist == [b \in TimeBins |-> 0]
EmptyADCHist == [q \in ADCValues |-> 0]

\* The histograms of one thread, or the global ones, freshly made.
NewHistograms ==
  [histoTime |-> [ch \in TAChannels |-> EmptyTimeHist],
   histoADC |-> [ch \in TAChannels |-> EmptyADCHist]]

\* TH2D::Fill(timeDiff, ID) and TH1D::Fill(chargeLong)
FillTime(h, timeDiff, id) ==
  [h EXCEPT ![<< FindXBin(timeDiff), id + 1 >>] = @ + 1]
FillADC(h, q) == [h EXCEPT ![q] = @ + 1]

\* TH1::GetEntries of histograms that are only filled with weight 1.
RECURSIVE SumOver(_, _)
SumOver(h, bins) ==
  IF bins = {} THEN 0
  ELSE LET b == CHOOSE x \in bins : TRUE
       IN  h[b] + SumOver(h, bins \ {b})

Entries(h) == SumOver(h, DOMAIN h)

\* TH1::Add: bin-wise addition.
HistKeep(a, b) == a
HistAdd(a, b) == [bin \in DOMAIN a |-> a[bin] + b[bin]]

TAInBounds(m, c) == m \in DOMAIN taChSettingsVec /\ c \in DOMAIN taChSettingsVec[m]

\* Loading a chunk: entries over threshold fill the ADC histogram and go to
\* dataVec with the time in ns.
RECURSIVE TALoad(_, _, _, _, _)
TALoad(entries, from, to, H, dataVec) ==
  IF from > to THEN [H |-> H, dataVec |-> dataVec]
  ELSE LET e == entries[from]
       IN  IF TAInBounds(e.mod, e.ch)
              /\ e.chargeLong > taChSettingsVec[e.mod][e.ch].thresholdADC
           THEN TALoad(entries, from + 1, to,
                       [H EXCEPT !.histoADC[<< e.mod, e.ch >>] = FillADC(@, e.chargeLong)],
                       Append(dataVec, [mod |-> e.mod, ch |-> e.ch,
                                        fineTS |-> e.fineTS \div 1000]))
           ELSE TALoad(entries, from + 1, to, H, dataVec)

\* The loop after a trigger hit iEve: fill until the difference exceeds the
\* window.
RECURSIVE TAForward(_, _, _, _)
TAForward(dataVec, iEve, i, h) ==
  IF i > Len(dataVec) THEN h
  ELSE LET timeDiff == dataVec[i].fineTS - dataVec[iEve].fineTS
       IN  IF timeDiff > fTimeWindow THEN h
           ELSE TAForward(dataVec, iEve, i + 1,
                          FillTime(h, timeDiff, taChSettingsVec[dataVec[i].mod][dataVec[i].ch].ID))

\* The loop before a trigger hit iEve.
RECURSIVE TABackward(_, _, _, _)
TABackward(dataVec, iEve, i, h) ==
  IF i < 1 THEN h
  ELSE LET timeDiff == dataVec[i].fineTS - dataVec[iEve].fineTS
       IN  IF timeDiff < -fTimeWindow THEN h
           ELSE TABackward(dataVec, iEve, i - 1,
                           FillTime(h, timeDiff, taChSettingsVec[dataVec[i].mod][dataVec[i].ch].ID))

\* The loop over the sorted hits of a chunk.
RECURSIVE TATriggers(_, _, _)
TATriggers(dataVec, iEve, H) ==
  IF iEve > Len(dataVec) THEN H
  ELSE LET m == dataVec[iEve].mod
           c == dataVec[iEve].ch
       IN  IF taChSettingsVec[m][c].isEventTrigger
           THEN TATriggers(dataVec, iEve + 1,
                  [H EXCEPT !.histoTime[<< m, c >>] =
                     TABackward(dataVec, iEve, iEve - 1,
                                TAForward(dataVec, iEve, iEve + 1, @))])
           ELSE TATriggers(dataVec, iEve + 1, H)

\* One chunk [start, chunkEnd) of a file (0-based entry numbers).
TAProcessChunk(entries, start, H) ==
  LET chunkEnd == Min(Len(entries), start + CHUNK_SIZE)
      loaded == TALoad(entries, start + 1, chunkEnd, H, << >>)
  IN  TATriggers(SortByTS(loaded.dataVec), 1, loaded.H)

(***************************************************************************)
(* CalculateTimeAlignment and the loading of its table by L1.              *)
(***************************************************************************)
\* TH2::ProjectionX(name, bin, bin) with bin = ID + 1
ProjectionX(h2, id) == [x \in TAXBins |-> h2[<< x, id + 1 >>]]

\* TH1::GetMaximumBin: the first bin in range holding the maximum.
MaximumBin(h1) ==
  CHOOSE x \in 1..TANBins :
    /\ \A y \in 1..TANBins : h1[y] <= h1[x]
    /\ \A y \in 1..TANBins : y < x => h1[y] < h1[x]

\* localVec[i][j] for the histogram of one reference channel.
LocalVec(hist2D) ==
  [m \in DOMAIN taChSettingsVec |->
     [c \in DOMAIN taChSettingsVec[m] |->
        LET hist == ProjectionX(hist2D, taChSettingsVec[m][c].ID)
        IN  IF Entries(hist) > 0 THEN BinCenter(MaximumBin(hist)) ELSE 0]]

\* timeSettingsVec[iMod][iCh]: empty when the file holds no histogram of the
\* channel.
TimeSettingsVec(saved) ==
  [m \in DOMAIN taChSettingsVec |->
     [c \in DOMAIN taChSettingsVec[m] |->
        IF << m, c >> \in DOMAIN saved THEN LocalVec(saved[<< m, c >>]) ELSE << >>]]

\* The entry written for target (iMod, iCh) in the table of reference
\* (iRefMod, iRefCh).
WrittenOffset(iRefMod, iRefCh, iMod, iCh, timeOffset) ==
  IF timeOffset # 0 /\ iRefMod = iMod /\ iRefCh = iCh THEN 0 ELSE timeOffset

\* refModData: the tables of the reference channels of a module, those with
\* an empty timeSettingsVec left out.
RECURSIVE RefModData(_, _, _)
RefModData(tsv, iRefMod, iRefCh) ==
  IF iRefCh \notin DOMAIN taChSettingsVec[iRefMod] THEN << >>
  ELSE LET rest == RefModData(tsv, iRefMod, iRefCh + 1)
       IN  IF tsv[iRefMod][iRefCh] = << >> THEN rest
           ELSE << [m \in DOMAIN taChSettingsVec |->
                      [c \in DOMAIN taChSettingsVec[m] |->
                         WrittenOffset(iRefMod, iRefCh, m, c,
                                       tsv[iRefMod][iRefCh][m][c])]] >> \o rest

\* jsonData: per module the sequence of its tables; position k of the
\* sequence is index k - 1 of the JSON array.
JsonData(saved) ==
  [iRefMod \in DOMAIN taChSettingsVec |-> RefModData(TimeSettingsVec(saved), iRefMod, 0)]

\* L1EventBuilder::LoadTimeSettings: the table is read by position and the
\* entry whose position names the reference channel is set to 0.
LoadedOffset(iRefMod, iRefCh, iMod, iCh, timeOffset) ==
  IF iRefMod = iMod /\ iRefCh = iCh THEN 0 ELSE timeOffset

LoadTimeSettings(timeJSON) ==
  [iRefMod \in DOMAIN timeJSON |->
     [k \in 1..Len(timeJSON[iRefMod]) |->
        [m \in DOMAIN timeJSON[iRefMod][k] |->
           [c \in DOMAIN timeJSON[iRefMod][k][m] |->
              LoadedOffset(iRefMod, k - 1, m, c, timeJSON[iRefMod][k][m][c])]]]]

(***************************************************************************)
(* FillHistograms and its workers.                                         *)
(***************************************************************************)
TAThreads == 2        \* nThreads of FillHistograms
MaxTAEntries2 == 1    \* entries of the second input file

TAWorkers == 0..(TAThreads - 1)

TAInputFiles1 == { ZombieFile } \cup { GoodFile(es) : es \in SeqsUpTo(TAEntryPool, MaxTAEntries) }
TAInputFiles2 == { ZombieFile } \cup { GoodFile(es) : es \in SeqsUpTo(TAEntryPool, MaxTAEntries2) }

\* LoadFileList, InitHistograms, and FillHistograms up to the start of the
\* workers.
InitTA ==
  /\ MainIdle
  /\ LoadIdle
  /\ L1Idle
  /\ L2Idle
  /\ UnitIdle
  /\ \E f1 \in TAInputFiles1, f2 \in TAInputFiles2 : taFiles = << f1, f2 >>
  /\ taFileList = << 1, 2 >>
  /\ fDataProcessFlag = TRUE
  /\ taCancelled = FALSE
  /\ taPc = [w \in TAWorkers |-> "while"]
  /\ taFileName = [w \in TAWorkers |-> 0]
  /\ taChunkStart = [w \in TAWorkers |-> 0]
  /\ fThreadHistograms = [w \in TAWorkers |-> NewHistograms]
  /\ fHisto = NewHistograms
  /\ taStage = "fill"
  /\ taSavedFile = << >>
  /\ timeSettingsJSON = << >>
  /\ l1TimeSettings = << >>
  /\ taClaimLog = [w \in TAWorkers |-> << >>]
  /\ taJoined = << >>

\* Cancel() or the SIGINT handler.
TACancel ==
  /\ taStage = "fill"
  /\ ~taCancelled
  /\ taCancelled' = TRUE
  /\ UNCHANGED << taFiles, taFileList, fDataProcessFlag, taPc, taFileName, taChunkStart,
                  fThreadHistograms, fHisto, taStage, taSavedFile, timeSettingsJSON,
                  l1TimeSettings, taClaimLog, taJoined >>
  /\ UNCHANGED tarest

\* `while (fDataProcessFlag.load())` and the cancellation check under it.
TAWhile(w) ==
  /\ taPc[w] = "while"
  /\ taPc' = [taPc EXCEPT ![w] = IF fDataProcessFlag /\ ~taCancelled THEN "pop" ELSE "done"]
  /\ UNCHANGED << taFiles, taFileList, fDataProcessFlag, taCancelled, taFileName,
                  taChunkStart, fThreadHistograms, fHisto, taStage, taSavedFile,
                  timeSettingsJSON, l1TimeSettings, taClaimLog, taJoined >>
  /\ UNCHANGED tarest

\* fFileList.erase(fFileList.begin())
KeepFront(list) == list
PopFront(list) == Tail(list)

\* The block under fFileListMutex: leave when the list is empty, else take
\* the front of the list.
TAPopEmpty(w) ==
  /\ taPc[w] = "pop"
  /\ taFileList = << >>
  /\ fDataProcessFlag' = FALSE
  /\ taPc' = [taPc EXCEPT ![w] = "done"]
  /\ UNCHANGED << taFiles, taFileList, taCancelled, taFileName, taChunkStart,
                  fThreadHistograms, fHisto, taStage, taSavedFile, timeSettingsJSON,
                  l1TimeSettings, taClaimLog, taJoined >>
  /\ UNCHANGED tarest

TAPop(w) ==
  /\ taPc[w] = "pop"
  /\ taFileList # << >>
  /\ taFileName' = [taFileName EXCEPT ![w] = Head(taFileList)]
  /\ taFileList' = PopFront(taFileList)
  /\ taClaimLog' = [taClaimLog EXCEPT ![w] = Append(@, Head(taFileList))]
  /\ taPc' = [taPc EXCEPT ![w] = "open"]
  /\ UNCHANGED << taFiles, fDataProcessFlag, taCancelled, taChunkStart,
                  fThreadHistograms, fHisto, taStage, taSavedFile, timeSettingsJSON,
                  l1TimeSettings, taJoined >>
  /\ UNCHANGED tarest

\* Where the thread goes on after the `continue` of a file that cannot be
\* opened: the head of the while loop.
TAAfterOpenFailure(w) == "while"

\* A file that cannot be opened: `continue`.
TASkipFile(w) ==
  /\ taPc[w] = "open"
  /\ ~taFiles[taFileName[w]].ok
  /\ taPc' = [taPc EXCEPT ![w] = TAAfterOpenFailure(w)]
  /\ UNCHANGED << taFiles, taFileList, fDataProcessFlag, taCancelled, taFileName,
                  taChunkStart, fThreadHistograms, fHisto, taStage, taSavedFile,
                  timeSettingsJSON, l1TimeSettings, taClaimLog, taJoined >>
  /\ UNCHANGED tarest

\* The file is open; the chunk loop starts, or is over at once for a tree
\* without entries.
TAOpenFile(w) ==
  /\ taPc[w] = "open"
  /\ taFiles[taFileName[w]].ok
  /\ taChunkStart' = [taChunkStart EXCEPT ![w] = 0]
  /\ taPc' = [taPc EXCEPT ![w] =
                IF Len(taFiles[taFileName[w]].entries) > 0 THEN "chunk" ELSE "while"]
  /\ UNCHANGED << taFiles, taFileList, fDataProcessFlag, taCancelled, taFileName,
                  fThreadHistograms, fHisto, taStage, taSavedFile,
                  timeSettingsJSON, l1TimeSettings, taClaimLog, taJoined >>
  /\ UNCHANGED tarest

\* Cancellation seen at the head of a chunk: `return`.
TAChunkCancelled(w) ==
  /\ taPc[w] = "chunk"
  /\ taCancelled
  /\ taPc' = [taPc EXCEPT ![w] = "done"]
  /\ UNCHANGED << taFiles, taFileList, fDataProcessFlag, taCancelled, taFileName,
                  taChunkStart, fThreadHistograms, fHisto, taStage, taSavedFile,
                  timeSettingsJSON, l1TimeSettings, taClaimLog, taJoined >>
  /\ UNCHANGED tarest

\* The entry of fThreadHistograms the thread threadID fills:
\* fThreadHistograms[threadID].
SharedHistogram(threadID) == 0
HistogramOf(threadID) == threadID

\* One chunk of the claimed file fills the histograms of the worker.
TAChunk(w) ==
  /\ taPc[w] = "chunk"
  /\ ~taCancelled
  /\ LET entries == taFiles[taFileName[w]].entries
     IN  /\ fThreadHistograms' =
              [fThreadHistograms EXCEPT ![HistogramOf(w)] = TAProcessChunk(entries, taChunkStart[w], @)]
         /\ taChunkStart' = [taChunkStart EXCEPT ![w] = @ + CHUNK_SIZE]
         /\ taPc' = [taPc EXCEPT ![w] =
                       IF taChunkStart[w] + CHUNK_SIZE < Len(entries) THEN "chunk" ELSE "while"]
  /\ UNCHANGED << taFiles, taFileList, fDataProcessFlag, taCancelled, taFileName,
                  fHisto, taStage, taSavedFile, timeSettingsJSON, l1TimeSettings,
                  taClaimLog, taJoined >>
  /\ UNCHANGED tarest

\* MergeThreadHistograms: the histograms of thread 0 are moved to the global
\* ones and those of the other threads are added.
RECURSIVE MergeFrom(_, _, _)
MergeFrom(h, threadHists, t) ==
  IF t \notin DOMAIN threadHists THEN h
  ELSE MergeFrom(HistAdd(h, threadHists[t]), threadHists, t + 1)

\* A merge that moves the histograms of thread 0 and adds no other thread.
MergeFirstThread(global, threadHists) ==
  IF 0 \in DOMAIN threadHists
  THEN [histoTime |-> [ch \in TAChannels |-> threadHists[0].histoTime[ch]],
        histoADC |-> [ch \in TAChannels |-> threadHists[0].histoADC[ch]]]
  ELSE global

MergeThreadHistograms(global, threadHists) ==
  IF 0 \in DOMAIN threadHists
  THEN [histoTime |-> [ch \in TAChannels |->
                         MergeFrom(threadHists[0].histoTime[ch],
                                   [t \in DOMAIN threadHists |-> threadHists[t].histoTime[ch]], 1)],
        histoADC |-> [ch \in TAChannels |->
                        MergeFrom(threadHists[0].histoADC[ch],
                                  [t \in DOMAIN threadHists |-> threadHists[t].histoADC[ch]], 1)]]
  ELSE global

\* SaveHistograms: a time histogram is written when it has entries.
SavedHistograms(global) ==
  [ch \in { x \in TAChannels : Entries(global.histoTime[x]) > 0 } |-> global.histoTime[ch]]

\* The end of FillHistograms: the workers have joined, the histograms are
\* merged and saved.
TAMergeAndSave ==
  /\ taStage = "fill"
  /\ \A w \in TAWorkers : taPc[w] = "done"
  /\ taJoined' = fThreadHistograms
  /\ fHisto' = MergeThreadHistograms(fHisto, fThreadHistograms)
  /\ fThreadHistograms' = << >>
  /\ taSavedFile' = SavedHistograms(MergeThreadHistograms(fHisto, fThreadHistograms))
  /\ taStage' = "saved"
  /\ UNCHANGED << taFiles, taFileList, fDataProcessFlag, taCancelled, taPc, taFileName,
                  taChunkStart, timeSettingsJSON, l1TimeSettings, taClaimLog >>
  /\ UNCHANGED tarest

\* CalculateTimeAlignment writes timeSettings.json.
TACalculate ==
  /\ taStage = "saved"
  /\ timeSettingsJSON' = JsonData(taSavedFile)
  /\ taStage' = "calculated"
  /\ UNCHANGED << taFiles, taFileList, fDataProcessFlag, taCancelled, taPc, taFileName,
                  taChunkStart, fThreadHistograms, fHisto, taSavedFile, l1TimeSettings,
                  taClaimLog, taJoined >>
  /\ UNCHANGED tarest

\* L1EventBuilder::LoadTimeSettings reads timeSettings.json.
TALoadTimeSettings ==
  /\ taStage = "calculated"
  /\ l1TimeSettings' = LoadTimeSettings(timeSettingsJSON)
  /\ taStage' = "loaded"
  /\ UNCHANGED << taFiles, taFileList, fDataProcessFlag, taCancelled, taPc, taFileName,
                  taChunkStart, fThreadHistograms, fHisto, taSavedFile, timeSettingsJSON,
                  taClaimLog, taJoined >>
  /\ UNCHANGED tarest

NextTA ==
  \/ TACancel
  \/ \E w \in TAWorkers : TAWhile(w)
  \/ \E w \in TAWorkers : TAPopEmpty(w)
  \/ \E w \in TAWorkers : TAPop(w)
  \/ \E w \in TAWorkers : TASkipFile(w)
  \/ \E w \in TAWorkers : TAOpenFile(w)
  \/ \E w \in TAWorkers : TAChunkCancelled(w)
  \/ \E w \in TAWorkers : TAChunk(w)
  \/ TAMergeAndSave
  \/ TACalculate
  \/ TALoadTimeSettings

SpecTA == InitTA /\ [][NextTA]_vars

(***************************************************************************)
(* BuildEvent: the file list is split among nThreads workers, which run    *)
(* DataReader side by side.                                                *)
(***************************************************************************)
MaxFiles == 3      \* files of the list given to LoadFileList
MaxThreads == 3    \* nThreads given to BuildEvent

BuildFiles ==
  { ZombieFile, GoodFile(<< >>), GoodFile(<< Entry(0, 0, 20, 0) >>),
    GoodFile(<< Entry(0, 0, 20, 0), Entry(1, 0, 20, 0) >>) }

\* After LoadFileList: a non-empty list, BuildEvent not yet called.
InitBuild ==
  \E files \in SeqsUpTo(BuildFiles, MaxFiles) \ { << >> } :
    L1Start(files, 0) /\ L2Idle /\ UnitIdle /\ TAIdle /\ MainIdle /\ LoadIdle

\* BuildEvent(n) up to the start of the reader threads.
L1BuildEvent ==
  /\ nThreads = 0
  /\ fFileList # << >>
  /\ \E n \in 1..MaxThreads :
       /\ nThreads' = n
       /\ localFileList' = MakeLocalFileList(Len(fFileList), n)
       /\ pc' = [w \in 0..(n - 1) |-> "file"]
       /\ iFile' = [w \in 0..(n - 1) |-> 0]
       /\ chunkStart' = [w \in 0..(n - 1) |-> 0]
       /\ overlapBuffer' = [w \in 0..(n - 1) |-> << >>]
       /\ outputTree' = [w \in 0..(n - 1) |-> << >>]
       /\ outputFile' = [w \in 0..(n - 1) |-> << >>]
       /\ chunkLog' = [w \in 0..(n - 1) |-> << >>]
  /\ fCancelled' = FALSE
  /\ UNCHANGED fFileList
  /\ UNCHANGED l1rest

NextL1 ==
  \/ L1Cancel
  \/ \E w \in Workers : L1LeaveFileLoop(w)
  \/ \E w \in Workers : L1SkipFile(w)
  \/ \E w \in Workers : L1OpenFile(w)
  \/ \E w \in Workers : L1Chunk(w)
  \/ \E w \in Workers : L1CloseFile(w)
  \/ \E w \in Workers : L1Write(w)

SpecL1 == InitL1 /\ [][NextL1]_vars

NextBuild ==
  \/ L1BuildEvent
  \/ NextL1

SpecBuild == InitBuild /\ [][NextBuild]_vars

NextL2 ==
  \/ L2Cancel
  \/ L2GetEntry
  \/ L2LeaveLoop
  \/ L2SkipEmpty
  \/ L2Event
  \/ L2Write

SpecL2 == InitL2 /\ [][NextL2]_vars

(***************************************************************************)
(* An L2 run followed by a second L2 run on the file the first has         *)
(* written (renamed so that GetFileList("L1") finds it).                   *)
(***************************************************************************)
\* The tree L1 writes and ProcessData reads, and the tree ProcessData writes.
L1TreeName == "L1EventData"
L2TreeName == "L2EventData"

\* Rules whose Check returns true whatever the flags are.
AlwaysTrueRules ==
  { L2DataAcceptance(<< >>, "AND"), L2DataAcceptance(<< "E_Pos" >>, "OR") }

\* The entries of a tree as ProcessData reads them: the branches TriggerTime
\* and EventDataVec.
ReadEvents(entries) ==
  [k \in 1..Len(entries) |->
     [triggerTime |-> entries[k].triggerTime,
      eventDataVec |-> entries[k].eventDataVec]]

\* The copies of fCounterVec and fFlagVec a run starts with.
FreshCounters(counterVec) ==
  [k \in 1..Len(counterVec) |-> [counterVec[k] EXCEPT !.counter = 0]]
FreshFlags(flagVec) ==
  [k \in 1..Len(flagVec) |-> [flagVec[k] EXCEPT !.flag = FALSE]]

InitL2Twice ==
  /\ MainIdle
  /\ LoadIdle
  /\ L1Idle
  /\ UnitIdle
  /\ TAIdle
  /\ l2InputTreeName = L1TreeName
  /\ l2Run = 1
  /\ l2FirstOutput = << >>
  /\ l2Input \in SeqsUpTo(L2Events, MaxL2Events)
  /\ fCancelledL2 = FALSE
  /\ l2pc = "open"
  /\ l2iEve = 0
  /\ localCounterVec \in CounterVecs
  /\ localFlagVec \in FlagVecs
  /\ localDataAcceptanceVec \in { << r >> : r \in AlwaysTrueRules }
  /\ l2OutputTree = <<>>
  /\ l2OutputFile = <<>>
  /\ l2Log = <<>>

\* inputFile->Get("L1EventData") finds the tree.
L2OpenInput ==
  /\ l2pc = "open"
  /\ l2InputTreeName = L1TreeName
  /\ l2pc' = "loop"
  /\ UNCHANGED << l2Input, fCancelledL2, l2iEve, localCounterVec, localFlagVec,
                  localDataAcceptanceVec, l2OutputTree, l2OutputFile, l2Log >>
  /\ UNCHANGED l2rest

\* `if (!inputTree) { ... return; }`: no output file is made.
L2NoTree ==
  /\ l2pc = "open"
  /\ l2InputTreeName # L1TreeName
  /\ l2pc' = "done"
  /\ UNCHANGED << l2Input, fCancelledL2, l2iEve, localCounterVec, localFlagVec,
                  localDataAcceptanceVec, l2OutputTree, l2OutputFile, l2Log >>
  /\ UNCHANGED l2rest

\* BuildEvent again, with the file the first run has written as input.
L2RunAgain ==
  /\ l2pc = "done"
  /\ l2Run = 1
  /\ l2Run' = 2
  /\ l2FirstOutput' = l2OutputFile
  /\ l2InputTreeName' = L2TreeName
  /\ l2Input' = ReadEvents(l2OutputFile)
  /\ fCancelledL2' = FALSE
  /\ l2pc' = "open"
  /\ l2iEve' = 0
  /\ localCounterVec' = FreshCounters(localCounterVec)
  /\ localFlagVec' = FreshFlags(localFlagVec)
  /\ l2OutputTree' = << >>
  /\ l2OutputFile' = << >>
  /\ l2Log' = << >>
  /\ UNCHANGED localDataAcceptanceVec
  /\ UNCHANGED << l1vars, unitvars, tavars, mainvars, loadvars >>

NextL2Twice ==
  \/ L2OpenInput
  \/ L2NoTree
  \/ L2RunAgain
  \/ L2Cancel
  \/ L2GetEntry
  \/ L2LeaveLoop
  \/ L2SkipEmpty
  \/ L2Event
  \/ L2Write

SpecL2Twice == InitL2Twice /\ [][NextL2Twice]_vars

\* One invocation of the program: the L1 stage or the time alignment stage.
InitStage == InitL1 \/ InitTA

NextStage ==
  \/ NextL1
  \/ taStage # "idle" /\ NextTA

SpecStage == InitStage /\ [][NextStage]_vars

(***************************************************************************)
(* One invocation of the program that runs the L1 stage with two workers   *)
(* or the L2 stage, and may be cancelled at any moment.  The worker        *)
(* threads keep being scheduled: a reader that stands at a loop head or at *)
(* the final Write, and the L2 worker, eventually take their step.         *)
(***************************************************************************)
MaxCancelFiles == 3    \* files of the list of the cancelled L1 run
MaxCancelEvents == 3   \* events of the input file of the cancelled L2 run

CancelFiles ==
  { ZombieFile, GoodFile(<< Entry(0, 0, 20, 0) >>),
    GoodFile(<< Entry(0, 0, 20, 0), Entry(1, 0, 20, 1000), Entry(0, 1, 20, 2000) >>) }

CancelEvents ==
  { [triggerTime |-> 100, eventDataVec |-> << >>],
    [triggerTime |-> 100, eventDataVec |-> << L2Hit(0, 0) >>],
    [triggerTime |-> 200, eventDataVec |-> << L2Hit(0, 1), L2Hit(0, 0) >>] }

InitCancel ==
  /\ MainIdle
  /\ LoadIdle
  /\ UnitIdle
  /\ TAIdle
  /\ \/ /\ \E files \in SeqsUpTo(CancelFiles, MaxCancelFiles) \ { << >> } :
             L1Start(files, 2)
        /\ L2Idle
     \/ /\ L1Idle
        /\ ChainIdle
        /\ l2Input \in SeqsUpTo(CancelEvents, MaxCancelEvents)
        /\ fCancelledL2 = FALSE
        /\ l2pc = "loop"
        /\ l2iEve = 0
        /\ localCounterVec \in CounterVecs
        /\ localFlagVec \in FlagVecs
        /\ localDataAcceptanceVec \in { << r >> : r \in AlwaysTrueRules }
        /\ l2OutputTree = <<>>
        /\ l2OutputFile = <<>>
        /\ l2Log = <<>>

\* The steps of the reader thread w other than the body of a chunk.
L1LoopControl(w) ==
  \/ L1LeaveFileLoop(w)
  \/ L1SkipFile(w)
  \/ L1OpenFile(w)
  \/ L1CloseFile(w)
  \/ L1Write(w)

\* The steps of the L2 worker thread.
L2Worker ==
  \/ L2GetEntry
  \/ L2LeaveLoop
  \/ L2SkipEmpty
  \/ L2Event
  \/ L2Write

NextCancel ==
  \/ NextL1
  \/ NextL2

SpecCancel ==
  /\ InitCancel
  /\ [][NextCancel]_vars
  /\ WF_vars(\E w \in Workers : L1LoopControl(w))
  /\ WF_vars(L2Worker)

(***************************************************************************)
(* The stages under a fair scheduler: every thread that can take a step    *)
(* eventually takes one, and FillHistograms goes on once its threads have  *)
(* joined.                                                                 *)
(***************************************************************************)
InitTerminate == InitCancel \/ InitTA

\* One iteration of the chunk loop of reader w, as far as the position of
\* the reader shows it: chunkStart += CHUNK_SIZE.
L1ChunkDone(w) ==
  /\ pc[w] = "chunk"
  /\ chunkStart[w] < Len(CurFile(w).entries)
  /\ ~ChunkLoopCancelled
  /\ chunkStart' = [chunkStart EXCEPT ![w] = @ + CHUNK_SIZE]
  /\ UNCHANGED << pc, iFile >>

\* The steps of the reader thread w, seen on pc, iFile and chunkStart.
L1Worker(w) ==
  \/ L1LoopControl(w)
  \/ L1ChunkDone(w)

\* The steps of the TimeAlignment thread w.
TAWorker(w) ==
  \/ TAWhile(w)
  \/ TAPopEmpty(w)
  \/ TAPop(w)
  \/ TASkipFile(w)
  \/ TAOpenFile(w)
  \/ TAChunkCancelled(w)
  \/ TAChunk(w)

\* FillHistograms behind the join of its threads, as far as taStage shows it.
TAAfterJoin ==
  /\ taStage = "fill"
  /\ \A w \in TAWorkers : taPc[w] = "done"
  /\ taStage' = "saved"

NextTerminate ==
  \/ NextL1
  \/ NextL2
  \/ taStage # "idle" /\ NextTA

\* Every thread that can move on eventually does, and so does
\* FillHistograms once its threads have joined.
SpecTerminate ==
  /\ InitTerminate
  /\ [][NextTerminate]_vars
  /\ WF_<< pc, iFile, chunkStart >>(\E w \in Workers : L1Worker(w))
  /\ WF_vars(L2Worker)
  /\ WF_vars(taStage # "idle" /\ \E w \in TAWorkers : TAWorker(w))
  /\ WF_taStage(taStage # "idle" /\ TAAfterJoin)

(***************************************************************************)
(* BuildEvent from its entry: Cancel() can be called, by another thread or *)
(* by a SIGINT handler that an earlier run has installed, before           *)
(* BuildEvent reaches fCancelled.store(false).                             *)
(***************************************************************************)
\* BuildEvent has been entered with a loaded file list; its checks run.
InitEnter ==
  \E files \in SeqsUpTo(BuildFiles, MaxFiles) \ { << >> } :
    L1Start(files, 0) /\ L2Idle /\ UnitIdle /\ TAIdle /\ MainIdle /\ LoadIdle

\* Cancel() while BuildEvent is between its entry and fCancelled.store(false).
L1EarlyCancel ==
  /\ nThreads = 0
  /\ fFileList # << >>
  /\ ~fCancelled
  /\ fCancelled' = TRUE
  /\ UNCHANGED << fFileList, nThreads, localFileList, pc, iFile, chunkStart,
                  overlapBuffer, outputTree, outputFile, chunkLog >>
  /\ UNCHANGED l1rest

NextEnter ==
  \/ L1EarlyCancel
  \/ L1BuildEvent
  \/ NextL1

SpecEnter == InitEnter /\ [][NextEnter]_vars

(***************************************************************************)
(* L2EventBuilder::LoadL2Settings called on one builder, once or again     *)
(***************************************************************************)

MaxConditions == 2   \* conditions in a rule file
MaxLoads == 2        \* calls of LoadL2Settings on the builder

\* The entries a rule file is made of: a counter, a flag, an acceptance
\* rule, and an entry whose Type is none of the three.
Conditions ==
  { [Type |-> "Counter", Name |-> "E_Counter", Tags |-> {"E"},
     Monitor |-> "", Monitors |-> << >>, Operator |-> "", Value |-> 0],
    [Type |-> "Flag", Name |-> "E_Pos", Tags |-> {},
     Monitor |-> "E_Counter", Monitors |-> << >>, Operator |-> ">", Value |-> 0],
    [Type |-> "Accept", Name |-> "E_Accept", Tags |-> {},
     Monitor |-> "", Monitors |-> << "E_Pos" >>, Operator |-> "AND", Value |-> 0],
    [Type |-> "Histogram", Name |-> "E_Hist", Tags |-> {},
     Monitor |-> "", Monitors |-> << >>, Operator |-> "", Value |-> 0] }

\* A rule file: one that cannot be opened, or a JSON array of conditions.
RuleFiles ==
  { [ok |-> FALSE, j |-> << >>] }
    \cup { [ok |-> TRUE, j |-> j] : j \in SeqsUpTo(Conditions, MaxConditions) }

\* `for (auto condition : j)` from the k-th condition on: a Counter is
\* pushed to counters, a Flag to flags, an Accept to accepts; any other
\* Type is reported and skipped.
RECURSIVE LoadConditions(_, _, _)
LoadConditions(j, k, rules) ==
  IF k > Len(j) THEN rules
  ELSE LET condition == j[k]
       IN  LoadConditions(j, k + 1,
             IF condition.Type = "Counter"
             THEN [rules EXCEPT !.counters =
                     Append(@, L2Counter(condition.Name, condition.Tags))]
             ELSE IF condition.Type = "Flag"
             THEN [rules EXCEPT !.flags =
                     Append(@, L2Flag(condition.Name, condition.Monitor,
                                      condition.Operator, condition.Value))]
             ELSE IF condition.Type = "Accept"
             THEN [rules EXCEPT !.accepts =
                     Append(@, L2DataAcceptance(condition.Monitors,
                                                condition.Operator))]
             ELSE rules)

\* A builder whose channel settings are loaded and whose rule vectors are
\* as constructed.
InitLoad ==
  /\ L1Idle
  /\ L2Idle
  /\ UnitIdle
  /\ TAIdle
  /\ MainIdle
  /\ LoadIdle

\* LoadL2Settings(fileName).  fChSettingsVec is not empty.  A file that
\* cannot be opened: return.  Else fCounterVec.clear(), and the loop over
\* the conditions pushes to fCounterVec, fFlagVec and fDataAcceptanceVec.
LoadL2Settings(file) ==
  /\ Len(loadLog) < MaxLoads
  /\ IF ~file.ok
     THEN UNCHANGED << fCounterVec, fFlagVec, fDataAcceptanceVec >>
     ELSE LET rules == LoadConditions(file.j, 1,
                         [counters |-> << >>,
                          flags |-> fFlagVec,
                          accepts |-> fDataAcceptanceVec])
          IN  /\ fCounterVec' = rules.counters
              /\ fFlagVec' = rules.flags
              /\ fDataAcceptanceVec' = rules.accepts
  /\ loadLog' = Append(loadLog, file)
  /\ UNCHANGED loadrest

NextLoad == \E file \in RuleFiles : LoadL2Settings(file)

SpecLoad == InitLoad /\ [][NextLoad]_vars

(***************************************************************************)
(* main(): settings, file list, the selected stage, the end of the process *)
(***************************************************************************)

\* L1EventBuilder::BuildEvent accepts 1 to 128 threads.
ThreadLimit == 128

\* One run of the executable with the option -t, -l1 or -l2.
InitMain ==
  /\ LoadIdle
  /\ L1Idle
  /\ L2Idle
  /\ UnitIdle
  /\ TAIdle
  /\ buildType \in { "Time", "L1", "L2" }
  /\ nThread = 0
  /\ mainEnv \in [ NumberOfThread : { -1, 0, 2, 129 },
                   hardware_concurrency : { 0, 4 },
                   nRawFiles : { 0, 1, 3, 130 },
                   chSettings : { "ok", "missing" },
                   timeSettings : { "ok", "missing" },
                   refInRange : BOOLEAN,
                   nL1Files : { 0, 2, 129 },
                   nL1Events : { 0, 1 },
                   firstReadMs : ReadTimes,
                   l2Settings : { "ok", "unopenable", "unknownType" } ]
  /\ mainPc = "settings"
  /\ nLaunched = 0
  /\ mainRaised = "none"
  /\ mainCancelled = FALSE
  /\ exitCode = 0

\* main.cpp:126-132: nThread = j["NumberOfThread"], 0 becomes
\* std::thread::hardware_concurrency().
MainLoadSettings ==
  /\ mainPc = "settings"
  /\ nThread' = IF mainEnv.NumberOfThread = 0 THEN mainEnv.hardware_concurrency
                ELSE mainEnv.NumberOfThread
  /\ mainPc' = "files"
  /\ UNCHANGED << buildType, mainEnv, nLaunched, mainRaised, mainCancelled, exitCode >>
  /\ UNCHANGED mainrest

\* main.cpp:252-265: no file, return 1; fewer files than threads, one
\* thread per file. In fileList.size() < nThread the int is converted to
\* size_t, a negative one to a value above every size.
MainGetFileList ==
  /\ mainPc = "files"
  /\ IF mainEnv.nRawFiles = 0
     THEN /\ mainPc' = "exited"
          /\ exitCode' = 1
          /\ UNCHANGED nThread
     ELSE /\ mainPc' = "stage"
          /\ nThread' = IF nThread < 0 \/ mainEnv.nRawFiles < nThread THEN mainEnv.nRawFiles
                        ELSE nThread
          /\ UNCHANGED exitCode
  /\ UNCHANGED << buildType, mainEnv, nLaunched, mainRaised, mainCancelled >>
  /\ UNCHANGED mainrest

\* An exception leaves the stage; main has no handler, the process ends in
\* std::terminate.
Throw(e) ==
  /\ mainPc' = "aborted"
  /\ mainRaised' = e
  /\ UNCHANGED nLaunched

\* The stage starts n worker threads and joins them.
Launch(n) ==
  /\ mainPc' = "workers"
  /\ nLaunched' = n
  /\ UNCHANGED mainRaised

\* TimeAlignment: LoadChSettings throws on empty channel settings;
\* FillHistograms(nThread) starts nThread threads.
StageTime ==
  /\ mainPc = "stage"
  /\ buildType = "Time"
  /\ IF mainEnv.chSettings = "missing" THEN Throw("ConfigException")
     ELSE Launch(nThread)
  /\ UNCHANGED << buildType, nThread, mainEnv, mainCancelled, exitCode >>
  /\ UNCHANGED mainrest

\* L1EventBuilder: LoadChSettings, LoadTimeSettings, then the checks of
\* BuildEvent in their order.
L1Exception(env, n) ==
  IF env.chSettings = "missing" THEN "ConfigException"
  ELSE IF env.timeSettings = "missing" THEN "FileException"
  ELSE IF n = 0 \/ n > ThreadLimit THEN "ValidationException"
  ELSE IF ~env.refInRange THEN "RangeException"
  ELSE "none"

StageL1 ==
  /\ mainPc = "stage"
  /\ buildType = "L1"
  /\ IF L1Exception(mainEnv, nThread) # "none" THEN Throw(L1Exception(mainEnv, nThread))
     ELSE Launch(nThread)
  /\ UNCHANGED << buildType, nThread, mainEnv, mainCancelled, exitCode >>
  /\ UNCHANGED mainrest

\* L2EventBuilder: LoadChSettings and LoadL2Settings print their errors and
\* return; BuildEvent sets nThreads = fFileList.size(), the L1_<i>.root files.
StageL2 ==
  /\ mainPc = "stage"
  /\ buildType = "L2"
  /\ Launch(mainEnv.nL1Files)
  /\ UNCHANGED << buildType, nThread, mainEnv, mainCancelled, exitCode >>
  /\ UNCHANGED mainrest

\* SIGINT while the stage waits for its workers: the handler calls Cancel().
MainSigint ==
  /\ mainPc = "workers"
  /\ ~mainCancelled
  /\ mainCancelled' = TRUE
  /\ UNCHANGED << buildType, nThread, mainEnv, mainPc, nLaunched, mainRaised, exitCode >>
  /\ UNCHANGED mainrest

\* Thread 0 of the L2 stage reads the first event of L1_0.root and its
\* progress estimate divides by zero: the trap ends the process inside the
\* worker, main does not return.
MainKilled ==
  /\ mainPc = "workers"
  /\ buildType = "L2"
  /\ nLaunched > 0
  /\ mainEnv.nL1Events > 0
  /\ DividesByZero(L2ThreadID, 0, mainEnv.firstReadMs)
  /\ mainPc' = "killed"
  /\ UNCHANGED << buildType, nThread, mainEnv, nLaunched, mainRaised, mainCancelled,
                  exitCode >>
  /\ UNCHANGED mainrest

\* The workers are joined, the stage returns, main returns 0.
MainJoin ==
  /\ mainPc = "workers"
  /\ mainPc' = "exited"
  /\ exitCode' = 0
  /\ UNCHANGED << buildType, nThread, mainEnv, nLaunched, mainRaised, mainCancelled >>
  /\ UNCHANGED mainrest

NextMain ==
  \/ MainLoadSettings
  \/ MainGetFileList
  \/ StageTime
  \/ StageL1
  \/ StageL2
  \/ MainSigint
  \/ MainKilled
  \/ MainJoin

SpecMain == InitMain /\ [][NextMain]_vars

(***************************************************************************)
(* Properties of the L1 coincidence grouping.                              *)
(***************************************************************************)
\* The chunks a worker has processed, and the events filled in them.
ChunkRecords == UNION { { chunkLog[w][k] : k \in 1..Len(chunkLog[w]) } : w \in Workers }

EventsOf(c) == { c.events[k] : k \in 1..Len(c.events) }
HitsOf(ev) == { ev.eventDataVec[k] : k \in 1..Len(ev.eventDataVec) }
OtherHitsOf(ev) == { ev.eventDataVec[k] : k \in 2..Len(ev.eventDataVec) }
BufferOf(c) == { c.rawDataVec[k] : k \in 1..Len(c.rawDataVec) }
TriggerOf(ev) == ev.eventDataVec[1]

FilledEvents == UNION { { outputTree[w][k] : k \in 1..Len(outputTree[w]) } : w \in Workers }

\* C1 as claimed: every hit of a filled event other than its trigger has a
\* relative timestamp strictly inside (-W, +W).
C1_OpenWindow ==
  \A ev \in FilledEvents : \A h \in OtherHitsOf(ev) :
    -fCoincidenceWindow < h.fineTS /\ h.fineTS < fCoincidenceWindow

\* C1 amended: every hit of a filled event other than its trigger has a
\* relative timestamp in the closed interval [-W, +W], and a hit of the chunk
\* lying exactly W after or exactly W before the trigger is in the event.
C1_ClosedWindow ==
  /\ \A ev \in FilledEvents : \A h \in OtherHitsOf(ev) :
       -fCoincidenceWindow <= h.fineTS /\ h.fineTS <= fCoincidenceWindow
  /\ \A c \in ChunkRecords : \A ev \in EventsOf(c) : \A b \in BufferOf(c) :
       (b.src # TriggerOf(ev).src /\ Abs(b.fineTS - ev.triggerTime) = fCoincidenceWindow)
         => \E h \in OtherHitsOf(ev) : h.src = b.src /\ h.fineTS = b.fineTS - ev.triggerTime

\* A filled event holds a hit exactly W after and a hit exactly W before its trigger.
C1_Witness ==
  \E ev \in FilledEvents :
    /\ \E h \in OtherHitsOf(ev) : h.fineTS = fCoincidenceWindow
    /\ \E h \in OtherHitsOf(ev) : h.fineTS = -fCoincidenceWindow

\* C2 as claimed: among overlapping triggers of a chunk only the one with the
\* smallest channel id is filled, so the trigger of a filled event has no
\* other trigger hit with a smaller id at a distance below W.
C2_SmallestIdSurvives ==
  \A c \in ChunkRecords : \A ev \in EventsOf(c) : \A b \in BufferOf(c) :
    (/\ b.src # TriggerOf(ev).src
     /\ IsTrigger(b)
     /\ Abs(b.fineTS - ev.triggerTime) < fCoincidenceWindow)
      => ChID(b) >= ChID(TriggerOf(ev))

\* C3: a hit of a filled event has isWithAC set iff its channel has hasAC
\* and the event holds a hit of channel (ACMod, ACCh) with |t| < W.
C3_ACTag ==
  \A ev \in FilledEvents : \A h \in HitsOf(ev) :
    h.isWithAC <=>
      /\ fChSettingsVec[h.mod][h.ch].hasAC
      /\ \E a \in HitsOf(ev) :
           /\ a.mod = fChSettingsVec[h.mod][h.ch].ACMod
           /\ a.ch = fChSettingsVec[h.mod][h.ch].ACCh
           /\ -fCoincidenceWindow < a.fineTS
           /\ a.fineTS < fCoincidenceWindow

\* A filled event has a tagged hit, and another filled event holds the
\* anti-coincidence channel exactly at W and its hasAC hit stays untagged.
C3_Witness ==
  /\ \E ev \in FilledEvents : \E h \in HitsOf(ev) : h.isWithAC
  /\ \E ev \in FilledEvents : \E h, a \in HitsOf(ev) :
       /\ fChSettingsVec[h.mod][h.ch].hasAC
       /\ ~h.isWithAC
       /\ a.mod = fChSettingsVec[h.mod][h.ch].ACMod
       /\ a.ch = fChSettingsVec[h.mod][h.ch].ACCh

(***************************************************************************)
(* Properties of the chunked reading.                                      *)
(***************************************************************************)
\* C4 as claimed: the trigger of every event built in a chunk was read from
\* the chunk's logical range [chunkStart, chunkStart + CHUNK_SIZE), and no
\* entry of a file is the trigger of events built in two chunks.
C4_TriggersInLogicalRange ==
  /\ \A c \in ChunkRecords : \A ev \in EventsOf(c) :
       /\ c.chunkStart <= TriggerOf(ev).src[2]
       /\ TriggerOf(ev).src[2] < c.chunkStart + CHUNK_SIZE
  /\ \A c, d \in ChunkRecords : \A ev \in EventsOf(c), ew \in EventsOf(d) :
       TriggerOf(ev).src = TriggerOf(ew).src => c = d

\* Entry i (0-based) of the entries es, as the hit read from it.
KeptAt(es, i) == Kept(es[i + 1])
TimeAt(es, i) == CorrectedTS(es[i + 1])
TriggerAt(es, i) == fChSettingsVec[es[i + 1].mod][es[i + 1].ch].isEventTrigger
IDAt(es, i) == fChSettingsVec[es[i + 1].mod][es[i + 1].ch].ID

\* Entry i is a kept trigger hit that no kept trigger hit read for the chunk
\* starting at s suppresses.
UnsuppressedIn(es, s, i) ==
  /\ KeptAt(es, i)
  /\ TriggerAt(es, i)
  /\ \A m \in 0..(Len(es) - 1) :
       (/\ m # i
        /\ s - OVERLAP_SIZE <= m
        /\ m < s + CHUNK_SIZE + OVERLAP_SIZE
        /\ KeptAt(es, m)
        /\ TriggerAt(es, m)
        /\ IDAt(es, m) >= IDAt(es, i))
         => Abs(TimeAt(es, m) - TimeAt(es, i)) >= fCoincidenceWindow

\* Entry i lies in the logical range of the chunk starting at s, entry j
\* among the OVERLAP_SIZE entries behind it, and j is within W of i.
TailPair(es, s, i, j) ==
  /\ s <= i /\ i < s + CHUNK_SIZE /\ i < Len(es)
  /\ s + CHUNK_SIZE <= j /\ j < s + CHUNK_SIZE + OVERLAP_SIZE /\ j < Len(es)
  /\ UnsuppressedIn(es, s, i)
  /\ KeptAt(es, j)
  /\ Abs(TimeAt(es, j) - TimeAt(es, i)) <= fCoincidenceWindow

\* C5: when a chunk is processed, a trigger hit of its logical range that is
\* not suppressed is filled as an event, and the event holds every coincident
\* hit read from the overlap behind the logical range.
C5_TailCoincidence ==
  \A c \in ChunkRecords :
    LET es == fFileList[c.file].entries
    IN  \A i, j \in 0..(Len(es) - 1) :
          TailPair(es, c.chunkStart, i, j)
            => \E ev \in EventsOf(c) :
                 /\ TriggerOf(ev).src = << c.file, i >>
                 /\ \E h \in OtherHitsOf(ev) : h.src = << c.file, j >>

\* A processed chunk has such a trigger with a coincident hit in the overlap.
C5_Witness ==
  \E c \in ChunkRecords :
    LET es == fFileList[c.file].entries
    IN  \E i, j \in 0..(Len(es) - 1) : TailPair(es, c.chunkStart, i, j)

(***************************************************************************)
(* Properties of the file boundary.                                        *)
(***************************************************************************)
\* Record k of worker w is the first chunk of a file that follows another
\* processed file of the worker.
AtFileBoundary(w, k) ==
  /\ k > 1
  /\ k <= Len(chunkLog[w])
  /\ chunkLog[w][k - 1].file # chunkLog[w][k].file
  /\ chunkLog[w][k - 1].rawDataVec # <<>>

\* The first timestamp of the file of record k, and the last timestamp
\* retained from the file before it.
FirstTimestamp(w, k) == fFileList[chunkLog[w][k].file].entries[1].fineTS \div 1000
LastTimestamp(w, k) ==
  chunkLog[w][k - 1].rawDataVec[Len(chunkLog[w][k - 1].rawDataVec)].fineTS

AcquisitionReset(w, k) ==
  AtFileBoundary(w, k) /\ FirstTimestamp(w, k) < LastTimestamp(w, k)
SameAcquisition(w, k) ==
  AtFileBoundary(w, k) /\ FirstTimestamp(w, k) >= LastTimestamp(w, k)

\* The trailing OVERLAP_SIZE hits of a sorted chunk.
TrailingHits(buf) ==
  { buf[n] : n \in { m \in 1..Len(buf) : m > Len(buf) - OVERLAP_SIZE } }

\* C6 as claimed: without an acquisition reset, the trailing hits retained
\* from the previous file of the worker are among the hits the first chunk
\* of the next file is processed with.
C6_OverlapCarriedAcrossFiles ==
  \A w \in Workers : \A k \in 1..Len(chunkLog[w]) :
    SameAcquisition(w, k)
      => \A h \in TrailingHits(chunkLog[w][k - 1].rawDataVec) :
           \E b \in BufferOf(chunkLog[w][k]) : b.src = h.src

\* C7: after an acquisition reset the file is processed with an empty overlap
\* buffer, and every hit of every event built from the file was read from
\* that file: no event holds hits from both sides of the reset.
C7_NoEventAcrossReset ==
  \A w \in Workers : \A k \in 1..Len(chunkLog[w]) :
    AcquisitionReset(w, k)
      => /\ chunkLog[w][k].overlap = <<>>
         /\ \A n \in k..Len(chunkLog[w]) :
              \A ev \in EventsOf(chunkLog[w][n]) : \A h \in HitsOf(ev) :
                h.src[1] = chunkLog[w][n].file

\* An event is filled from a file that starts with an acquisition reset,
\* while a hit retained from the file before lies within W of its trigger.
C7_Witness ==
  \E w \in Workers : \E k \in 1..Len(chunkLog[w]) :
    /\ AcquisitionReset(w, k)
    /\ \E ev \in EventsOf(chunkLog[w][k]) :
         \E h \in TrailingHits(chunkLog[w][k - 1].rawDataVec) :
           Abs(h.fineTS - ev.triggerTime) <= fCoincidenceWindow

(***************************************************************************)
(* Properties of the L2 selection.                                         *)
(***************************************************************************)
\* Tags of the counters of the model's rule set, by counter name.
CounterTags(name) == IF name = "E_Counter" THEN {"E"} ELSE {"dE", "Si"}

\* Number of hits whose channel carries one of the tags.
TaggedHits(hits, tags) ==
  Cardinality({ k \in 1..Len(hits) :
                  /\ hits[k].mod \in DOMAIN fChSettingsVec
                  /\ hits[k].ch \in DOMAIN fChSettingsVec[hits[k].mod]
                  /\ (fChSettingsVec[hits[k].mod][hits[k].ch].tags \cap tags) # {} })

\* The flags of an event, evaluated from the counters of its body.
FlagsOfEvent(ev) ==
  [k \in 1..Len(localFlagVec) |->
     [name |-> localFlagVec[k].name,
      flag |-> \E c \in 1..Len(localCounterVec) :
                 /\ localCounterVec[c].name = localFlagVec[k].fMonitorName
                 /\ Compare(localFlagVec[k].fCondition,
                            TaggedHits(ev.eventDataVec, CounterTags(localCounterVec[c].name)),
                            localFlagVec[k].fValue)]]

SomeRuleAccepts(flags) ==
  \E r \in 1..Len(localDataAcceptanceVec) : AcceptCheck(localDataAcceptanceVec[r], flags)

FilledCount == Cardinality({ k \in 1..Len(l2Log) : l2Log[k].filled })

\* C8 as claimed: an input event is written iff one of the acceptance rules
\* evaluates true for it.
C8_WrittenIffAccepted ==
  \A k \in 1..Len(l2Log) :
    l2Log[k].filled <=> SomeRuleAccepts(FlagsOfEvent(l2Input[l2Log[k].iEve + 1]))

\* C8 amended: an input event with at least one hit is written iff one of the
\* acceptance rules evaluates true for it; an event without hits is never
\* written.
C8_NonEmptyWrittenIffAccepted ==
  /\ \A k \in 1..Len(l2Log) :
       LET ev == l2Input[l2Log[k].iEve + 1]
       IN  IF Len(ev.eventDataVec) = 0
           THEN ~l2Log[k].filled
           ELSE l2Log[k].filled <=> SomeRuleAccepts(FlagsOfEvent(ev))
  /\ Len(l2OutputTree) = FilledCount

\* An event with hits was written and another one was rejected.
C8_Witness ==
  /\ \E k \in 1..Len(l2Log) : l2Log[k].filled
  /\ \E k \in 1..Len(l2Log) : ~l2Log[k].filled /\ ~l2Log[k].skipped

\* C9: in every written entry each counter equals the number of hits of the
\* event whose channel carries one of the counter's tags, whatever was
\* counted for the events before.
C9_CountersFromBody ==
  \A k \in 1..Len(l2OutputTree) : \A c \in 1..Len(l2OutputTree[k].counters) :
    l2OutputTree[k].counters[c].counter =
      TaggedHits(l2OutputTree[k].eventDataVec, CounterTags(l2OutputTree[k].counters[c].name))

\* Two entries were written and a counter of the second is below its value
\* in the first.
C9_Witness ==
  /\ Len(l2OutputTree) >= 2
  /\ \E c \in 1..Len(l2OutputTree[1].counters) :
       /\ l2OutputTree[1].counters[c].counter > 0
       /\ l2OutputTree[2].counters[c].counter < l2OutputTree[1].counters[c].counter

\* Some flag is named by a monitor of the rule / every such flag is true.
SomeMonitorMatches(a, flags) ==
  \E m \in 1..Len(a.fMonitorVec), f \in 1..Len(flags) : flags[f].name = a.fMonitorVec[m]
AllMatchesTrue(a, flags) ==
  \A m \in 1..Len(a.fMonitorVec), f \in 1..Len(flags) :
    flags[f].name = a.fMonitorVec[m] => flags[f].flag

\* C10 as claimed: an AND rule evaluates true iff one of its monitors names
\* an existing flag and every flag it names is true.
C10_AndNeedsMatch ==
  \A k \in 1..Len(l2Log) : \A r \in 1..Len(l2Log[k].accepts) :
    localDataAcceptanceVec[r].fLogicalOperator = "AND"
      => (l2Log[k].accepts[r] <=>
            /\ SomeMonitorMatches(localDataAcceptanceVec[r], l2Log[k].flags)
            /\ AllMatchesTrue(localDataAcceptanceVec[r], l2Log[k].flags))

\* Some flag named by a monitor of the rule is true.
SomeMatchTrue(a, flags) ==
  \E m \in 1..Len(a.fMonitorVec), f \in 1..Len(flags) :
    flags[f].name = a.fMonitorVec[m] /\ flags[f].flag

\* C11 as claimed: an OR rule evaluates true iff one of the flags it monitors
\* exists and is true; with all monitored flags false, or none existing, it
\* evaluates false.
C11_OrNeedsTrueFlag ==
  \A k \in 1..Len(l2Log) : \A r \in 1..Len(l2Log[k].accepts) :
    localDataAcceptanceVec[r].fLogicalOperator = "OR"
      => (l2Log[k].accepts[r] <=> SomeMatchTrue(localDataAcceptanceVec[r], l2Log[k].flags))

\* C12 as claimed: the value of a flag whose monitored counter exists is the
\* declared operator applied to the counter and the declared value as signed
\* integers, a negative declared value being a negative number.
C12_SignedComparison ==
  \A k \in 1..Len(l2Log) : \A f \in 1..Len(l2Log[k].flags) :
    \A c \in 1..Len(l2Log[k].counters) :
      LET fl == l2Log[k].flags[f]
          cnt == l2Log[k].counters[c].counter
      IN  l2Log[k].counters[c].name = fl.fMonitorName
            => (fl.flag <=>
                  CASE fl.fCondition = "==" -> cnt = fl.fValue
                    [] fl.fCondition = "<"  -> cnt < fl.fValue
                    [] fl.fCondition = ">"  -> cnt > fl.fValue
                    [] fl.fCondition = "<=" -> cnt <= fl.fValue
                    [] fl.fCondition = ">=" -> cnt >= fl.fValue
                    [] fl.fCondition = "!=" -> cnt # fl.fValue
                    [] OTHER -> FALSE)

\* The counter vector of a call holds a counter of the name the flag monitors.
MonitorExists(call) ==
  \E c \in 1..Len(call.counterVec) : call.counterVec[c].name = unitFlag.fMonitorName

\* C13 as claimed: evaluating a flag when no counter of the monitored name
\* exists leaves the value of the flag as it was before the evaluation.
C13_FlagRetained ==
  \A k \in 1..Len(unitLog) :
    ~MonitorExists(unitLog[k]) => unitLog[k].after = unitLog[k].before

\* C13 amended: evaluating a flag when no counter of the monitored name exists
\* sets the flag to false, whatever its value was before the evaluation.
C13_FlagCleared ==
  \A k \in 1..Len(unitLog) :
    ~MonitorExists(unitLog[k]) => unitLog[k].after = FALSE

\* A flag that was true is evaluated without its counter.
C13_Witness ==
  \E k \in 1..Len(unitLog) : ~MonitorExists(unitLog[k]) /\ unitLog[k].before

(***************************************************************************)
(* Properties of TimeAlignment.                                            *)
(***************************************************************************)
TAAllExited == \A w \in TAWorkers : taPc[w] = "done"

\* C14: no file of the list is claimed twice, by the same worker or by two
\* workers, and when all workers have exited without a cancellation every
\* file of the list has been claimed.
C14_EachFileClaimedOnce ==
  /\ \A w1 \in TAWorkers, w2 \in TAWorkers :
       \A k1 \in 1..Len(taClaimLog[w1]), k2 \in 1..Len(taClaimLog[w2]) :
         taClaimLog[w1][k1] = taClaimLog[w2][k2] => (w1 = w2 /\ k1 = k2)
  /\ (TAAllExited /\ ~taCancelled)
       => \A f \in 1..Len(taFiles) :
            \E w \in TAWorkers : \E k \in 1..Len(taClaimLog[w]) : taClaimLog[w][k] = f

\* All workers have exited without cancellation and two of them claimed a
\* file each.
C14_Witness ==
  /\ TAAllExited
  /\ ~taCancelled
  /\ \E w1 \in TAWorkers, w2 \in TAWorkers :
       w1 # w2 /\ Len(taClaimLog[w1]) > 0 /\ Len(taClaimLog[w2]) > 0

\* Sum over the workers of one bin of their histograms at the join.
RECURSIVE SumThreads(_, _, _, _)
SumThreads(kind, ch, bin, ws) ==
  IF ws = {} THEN 0
  ELSE LET w == CHOOSE x \in ws : TRUE
       IN  taJoined[w][kind][ch][bin] + SumThreads(kind, ch, bin, ws \ {w})

\* C15: once the workers have joined and the merge has run, every bin of
\* every global histogram holds the sum of that bin over the thread-local
\* histograms of all workers.
C15_MergeIsBinwiseSum ==
  taStage \in {"saved", "calculated", "loaded"}
    => \A ch \in TAChannels :
         /\ \A bin \in TimeBins :
              fHisto.histoTime[ch][bin] = SumThreads("histoTime", ch, bin, TAWorkers)
         /\ \A q \in ADCValues :
              fHisto.histoADC[ch][q] = SumThreads("histoADC", ch, q, TAWorkers)

\* The merge has run over two workers that both filled the same bin of an
\* ADC histogram, and one worker filled a time histogram.
C15_Witness ==
  /\ taStage = "saved"
  /\ \E ch \in TAChannels, q \in ADCValues :
       taJoined[0].histoADC[ch][q] > 0 /\ taJoined[1].histoADC[ch][q] > 0
  /\ \E w \in TAWorkers, ch \in TAChannels, bin \in TimeBins :
       taJoined[w].histoTime[ch][bin] > 0

\* The entries of a table whose position names the reference channel as the
\* target: table[m][c][m][c] with c the 0-based index in the array of m.
DiagonalOf(table) ==
  { table[m][k][m][k - 1] :
      << m, k >> \in { << m, k >> \in (DOMAIN table) \X (1..2) :
                        /\ k <= Len(table[m])
                        /\ m \in DOMAIN table[m][k]
                        /\ (k - 1) \in DOMAIN table[m][k][m] } }

\* C16 as claimed: every diagonal entry of the written offset table and of
\* the table L1 holds after loading it is 0.
C16_DiagonalZero ==
  /\ taStage \in {"calculated", "loaded"} => \A v \in DiagonalOf(timeSettingsJSON) : v = 0
  /\ taStage = "loaded" => \A v \in DiagonalOf(l1TimeSettings) : v = 0

(***************************************************************************)
(* Properties of the split of the file list.                               *)
(***************************************************************************)
\* The files (numbered from 0) given to worker w.
FilesOfWorker(w) == { localFileList[w][k] - 1 : k \in 1..Len(localFileList[w]) }

\* C17 as claimed: worker i receives exactly the files whose index in the
\* list modulo the worker count equals i.
C17_RoundRobin ==
  \A w \in Workers :
    FilesOfWorker(w) = { i \in 0..(Len(fFileList) - 1) : i % nThreads = w }

\* C17 amended: worker i receives a block of consecutive files in list
\* order: with F files and N workers, q = F div N and r = F mod N, the block
\* of worker i starts at file i * q + min(i, r) and holds q + 1 files when
\* i < r and q files otherwise.
C17_ContiguousBlocks ==
  \A w \in Workers :
    LET q == Len(fFileList) \div nThreads
        r == Len(fFileList) % nThreads
        first == w * q + (IF w < r THEN w ELSE r)
        count == IF w < r THEN q + 1 ELSE q
    IN  localFileList[w] = [k \in 1..count |-> first + k]

\* Three files were split among two workers.
C17_Witness == nThreads = 2 /\ Len(fFileList) = 3 /\ Len(localFileList[0]) = 2

(***************************************************************************)
(* Properties of the workers running side by side.                         *)
(***************************************************************************)
\* The events of the chunks of file f from entry `start` on, in order.
RECURSIVE EventsOfFile(_, _)
EventsOfFile(f, start) ==
  IF ~fFileList[f].ok \/ start >= Len(fFileList[f].entries) THEN << >>
  ELSE StripAll(ProcessChunk(SortByTS(
         LoadRange(fFileList[f].entries, f, ReadStart(start),
                   ReadEnd(Len(fFileList[f].entries), start)))))
       \o EventsOfFile(f, start + CHUNK_SIZE)

\* The events of the files of a list, one file after the other.
RECURSIVE EventsOfFiles(_, _)
EventsOfFiles(list, k) ==
  IF k > Len(list) THEN << >>
  ELSE EventsOfFile(list[k], 0) \o EventsOfFiles(list, k + 1)

\* C18: the shard a worker has written in a run without cancellation is the
\* sequence of events of its own files taken in order, whatever the other
\* workers did and however the steps of the workers were interleaved; two
\* runs on the same files with the same split write the same shards.
C18_ShardFromOwnFiles ==
  \A w \in Workers :
    (pc[w] = "done" /\ ~fCancelled) => outputFile[w] = EventsOfFiles(localFileList[w], 1)

\* Two workers have written shards with events in a run without
\* cancellation.
C18_Witness ==
  /\ ~fCancelled
  /\ \E w1 \in Workers, w2 \in Workers :
       /\ w1 # w2
       /\ pc[w1] = "done" /\ pc[w2] = "done"
       /\ outputFile[w1] # << >> /\ outputFile[w2] # << >>

(***************************************************************************)
(* Properties of triggers close to each other.                             *)
(***************************************************************************)
\* C19 as claimed: two distinct events of the output of one worker whose
\* trigger times differ by at most W have different trigger channel ids.
C19_CloseTriggersDifferInId ==
  \A w \in Workers : \A i, j \in 1..Len(outputTree[w]) :
    (/\ i # j
     /\ Abs(outputTree[w][i].triggerTime - outputTree[w][j].triggerTime)
          <= fCoincidenceWindow)
      => ChID(TriggerOf(outputTree[w][i])) # ChID(TriggerOf(outputTree[w][j]))

\* C20 as claimed: a trigger hit that has, in its file, another trigger hit
\* of equal id less than W away produces no event.
C20_EqualIdBothAbandoned ==
  \A c \in ChunkRecords : \A ev \in EventsOf(c) :
    LET es == fFileList[c.file].entries
        i == TriggerOf(ev).src[2]
    IN  \A j \in 0..(Len(es) - 1) :
          (/\ j # i
           /\ KeptAt(es, j)
           /\ TriggerAt(es, j)
           /\ IDAt(es, j) = IDAt(es, i))
            => Abs(TimeAt(es, j) - TimeAt(es, i)) >= fCoincidenceWindow

(***************************************************************************)
(* Layout of an emitted event.                                             *)
(***************************************************************************)
\* Corrected time of the entry a hit was read from.
SourceTime(h) == CorrectedTS(fFileList[h.src[1]].entries[h.src[2] + 1])

\* C21: in every event filled by L1, hits[0] is a hit of a trigger channel
\* with relative timestamp 0 whose own time is the event's trigger time,
\* every other hit's timestamp is the time of the hit it was read from minus
\* the trigger time, and hits[1..] are in non-decreasing timestamp order.
C21_EventLayout ==
  \A c \in ChunkRecords : \A ev \in EventsOf(c) :
    LET hits == ev.eventDataVec
    IN  /\ Len(hits) >= 1
        /\ IsTrigger(hits[1])
        /\ hits[1].fineTS = 0
        /\ SourceTime(hits[1]) = ev.triggerTime
        /\ \A k \in 2..Len(hits) : hits[k].fineTS = SourceTime(hits[k]) - ev.triggerTime
        /\ \A k \in 2..(Len(hits) - 1) : hits[k].fineTS <= hits[k + 1].fineTS

\* A filled event with a non-zero trigger time holds a hit before and a hit
\* after its trigger: the backward walk appended the earlier hit after the
\* later one and the sort put it in front.
C21_Witness ==
  \E c \in ChunkRecords : \E ev \in EventsOf(c) :
    /\ ev.triggerTime # 0
    /\ Len(ev.eventDataVec) >= 3
    /\ ev.eventDataVec[2].fineTS < 0
    /\ ev.eventDataVec[3].fineTS > 0

(***************************************************************************)
(* Chunked reading against reading the whole file at once.                 *)
(***************************************************************************)
\* The events of file f when all its entries are read, sorted and grouped
\* as one chunk.
WholeFileEvents(f) ==
  IF ~fFileList[f].ok THEN << >>
  ELSE StripAll(ProcessChunk(SortByTS(
         LoadRange(fFileList[f].entries, f, 0, Len(fFileList[f].entries)))))

RECURSIVE WholeFilesEvents(_, _)
WholeFilesEvents(list, k) ==
  IF k > Len(list) THEN << >>
  ELSE WholeFileEvents(list[k]) \o WholeFilesEvents(list, k + 1)

\* What the comparison looks at: trigger time and number of hits.
Outline(evs) ==
  [k \in 1..Len(evs) |->
     [triggerTime |-> evs[k].triggerTime, nHits |-> Len(evs[k].eventDataVec)]]

\* C22 as claimed: the events a worker has written in a run without
\* cancellation (chunks of CHUNK_SIZE entries with OVERLAP_SIZE overlap) are,
\* in number, trigger times and hits per event, the events of its files each
\* processed as a single chunk.
C22_ChunkedEqualsWhole ==
  \A w \in Workers :
    (pc[w] = "done" /\ ~fCancelled)
      => Outline(outputFile[w]) = Outline(WholeFilesEvents(localFileList[w], 1))

(***************************************************************************)
(* L2 applied to the output of L2.                                         *)
(***************************************************************************)
\* C23 as claimed: a second L2 run with an always-true rule on the file the
\* first run has written writes the events of that file again, in the same
\* order, with the same trigger times and hits.
C23_SecondRunIsIdentity ==
  (l2Run = 2 /\ l2pc = "done" /\ ~fCancelledL2)
    => ReadEvents(l2OutputFile) = ReadEvents(l2FirstOutput)

(***************************************************************************)
(* Cancellation.                                                           *)
(***************************************************************************)
AllReadersDone == \A w \in Workers : pc[w] = "done"

\* C24: from the moment the cancellation flag is set no reader starts a
\* chunk or opens a file, and the L2 worker, once it is back at the head of
\* its event loop, handles no further event: the flag is seen at the next
\* chunk, file or event boundary; and every worker then leaves its loops
\* and exits.
C24_CancelHonoured ==
  /\ [][fCancelled =>
          /\ chunkLog' = chunkLog
          /\ \A w \in Workers : pc'[w] = "chunk" => pc[w] = "chunk"
          /\ \A w \in Workers : pc[w] = "chunk" => chunkStart'[w] = chunkStart[w]]_vars
  /\ [][fCancelledL2 /\ l2pc # "entry" => l2Log' = l2Log /\ l2iEve' = l2iEve]_vars
  /\ (fCancelled ~> AllReadersDone)
  /\ (fCancelledL2 ~> (l2pc = "done"))

\* The events reader w has filled into its tree, chunk after chunk.
RECURSIVE EmittedUpTo(_, _)
EmittedUpTo(w, k) ==
  IF k = 0 THEN << >>
  ELSE EmittedUpTo(w, k - 1) \o StripAll(chunkLog[w][k].events)

\* The entries the L2 worker has filled into its tree, event after event.
RECURSIVE L2EmittedUpTo(_)
L2EmittedUpTo(k) ==
  IF k = 0 THEN << >>
  ELSE IF l2Log[k].filled
       THEN Append(L2EmittedUpTo(k - 1),
                   L2Entry(l2Input[l2Log[k].iEve + 1], l2Log[k].counters, l2Log[k].flags))
       ELSE L2EmittedUpTo(k - 1)

\* C25: a worker that has exited after a cancellation has written its
\* shard, and the shard holds the events the worker had filled before it
\* left its loops, whole and in order, and nothing else.
C25_PartialShardWritten ==
  /\ \A w \in Workers :
       (fCancelled /\ pc[w] = "done") => outputFile[w] = EmittedUpTo(w, Len(chunkLog[w]))
  /\ (fCancelledL2 /\ l2pc = "done") => l2OutputFile = L2EmittedUpTo(Len(l2Log))

\* A reader cancelled with a chunk of its file left has written a shard
\* that holds events.
C25_Witness ==
  /\ fCancelled
  /\ \E w \in Workers :
       /\ pc[w] = "done"
       /\ outputFile[w] # << >>
       /\ LET last == chunkLog[w][Len(chunkLog[w])]
          IN  last.chunkStart + CHUNK_SIZE < Len(fFileList[last.file].entries)

(***************************************************************************)
(* Files that cannot be opened.                                            *)
(***************************************************************************)
\* The chunk starts of a file of n entries.
ChunkStarts(n) == { s \in 0..(n - 1) : s % CHUNK_SIZE = 0 }

\* Reader w has processed the chunk of file f that starts at entry s.
ChunkDone(w, f, s) ==
  \E k \in 1..Len(chunkLog[w]) : chunkLog[w][k].file = f /\ chunkLog[w][k].chunkStart = s

\* C26: a file that cannot be opened does not end the run: a reader that
\* has exited in a run without cancellation has gone through its whole
\* list, and every chunk of every file of the list that could be opened was
\* processed, whichever files of this or of another reader's list could not
\* be opened.
C26_UnopenableFileSkipped ==
  \A w \in Workers :
    (pc[w] = "done" /\ ~fCancelled)
      => /\ iFile[w] = Len(localFileList[w])
         /\ \A k \in 1..Len(localFileList[w]) :
              LET f == localFileList[w][k]
              IN  fFileList[f].ok
                    => \A s \in ChunkStarts(Len(fFileList[f].entries)) : ChunkDone(w, f, s)

\* A reader has exited whose list holds a file that could not be opened
\* followed by a file with entries, which it has processed.
C26_Witness ==
  /\ ~fCancelled
  /\ \E w \in Workers :
       /\ pc[w] = "done"
       /\ \E k \in 1..(Len(localFileList[w]) - 1) :
            /\ ~fFileList[localFileList[w][k]].ok
            /\ fFileList[localFileList[w][k + 1]].ok
            /\ ChunkDone(w, localFileList[w][k + 1], 0)

(***************************************************************************)
(* Hits of channels that the settings do not hold.                         *)
(***************************************************************************)
\* Number of entries of a file that TimeAlignment keeps.
RECURSIVE TAKeptCount(_, _)
TAKeptCount(entries, k) ==
  IF k = 0 THEN 0
  ELSE TAKeptCount(entries, k - 1)
       + (IF /\ TAInBounds(entries[k].mod, entries[k].ch)
             /\ entries[k].chargeLong
                  > taChSettingsVec[entries[k].mod][entries[k].ch].thresholdADC
          THEN 1 ELSE 0)

\* The same over the files a worker has claimed.
RECURSIVE TAKeptInFiles(_, _)
TAKeptInFiles(claimed, k) ==
  IF k = 0 THEN 0
  ELSE TAKeptInFiles(claimed, k - 1)
       + (IF taFiles[claimed[k]].ok
          THEN TAKeptCount(taFiles[claimed[k]].entries, Len(taFiles[claimed[k]].entries))
          ELSE 0)

\* Entries of all ADC histograms of a set of histograms.
RECURSIVE ADCEntries(_, _)
ADCEntries(H, chs) ==
  IF chs = {} THEN 0
  ELSE LET ch == CHOOSE x \in chs : TRUE
       IN  Entries(H.histoADC[ch]) + ADCEntries(H, chs \ {ch})

\* C27: a hit whose module and channel are not in the channel settings is
\* dropped when it is read and reading goes on with the next entry.  In L1
\* the buffer of a chunk holds exactly the entries of the read range that lie
\* in the settings and are over threshold, so that no hit of an event is
\* outside the settings; in TimeAlignment the ADC histograms of a worker that
\* has gone through its files hold one entry for every such entry of these
\* files and none for any other.
C27_UnknownChannelDropped ==
  /\ \A c \in ChunkRecords :
       LET es == fFileList[c.file].entries
       IN  /\ \A b \in BufferOf(c) :
                /\ InBounds(b.mod, b.ch)
                /\ es[b.src[2] + 1].mod = b.mod /\ es[b.src[2] + 1].ch = b.ch
           /\ \A ev \in EventsOf(c) : \A h \in HitsOf(ev) :
                InBounds(h.mod, h.ch) /\ \E b \in BufferOf(c) : b.src = h.src
           /\ \A i \in ReadStart(c.chunkStart)..(ReadEnd(Len(es), c.chunkStart) - 1) :
                KeptAt(es, i) <=> \E b \in BufferOf(c) : b.src = << c.file, i >>
  /\ \A w \in DOMAIN taPc :
       (taStage = "fill" /\ taPc[w] = "done" /\ ~taCancelled)
         => ADCEntries(fThreadHistograms[w], TAChannels)
              = TAKeptInFiles(taClaimLog[w], Len(taClaimLog[w]))

\* A chunk was read in which an entry of a module outside the settings
\* stands in front of an entry that was kept and is the trigger of an event.
C27_Witness ==
  \E c \in ChunkRecords :
    LET es == fFileList[c.file].entries
    IN  \E i, j \in ReadStart(c.chunkStart)..(ReadEnd(Len(es), c.chunkStart) - 1) :
          /\ i < j
          /\ ~InBounds(es[i + 1].mod, es[i + 1].ch)
          /\ \E ev \in EventsOf(c) : TriggerOf(ev).src = << c.file, j >>

(***************************************************************************)
(* Configuration errors, thread counts and exit codes of a run of main().  *)
(***************************************************************************)

\* The run has one of the errors the stages are to reject: no input file,
\* a thread count outside 1..ThreadLimit, no channel settings, and for L1 no
\* time settings or a reference channel out of range, for L2 a settings
\* file that cannot be opened or holds a record of unknown type.
ConfigError ==
  \/ mainEnv.nRawFiles = 0
  \/ mainPc \in { "stage", "workers", "exited", "aborted", "killed" } /\ nThread \notin 1..ThreadLimit
  \/ mainEnv.chSettings = "missing"
  \/ buildType = "L1" /\ (mainEnv.timeSettings = "missing" \/ ~mainEnv.refInRange)
  \/ buildType = "L2" /\ mainEnv.l2Settings # "ok"

\* C28: every configuration or rule-parse error (empty file list, thread
\* count outside [1, 128], missing channel or time settings, out-of-range
\* reference channel, invalid L2 rule record) aborts the stage before any
\* worker thread is started: a run that has started a worker has no such error.
C28_AbortBeforeWorkers ==
  nLaunched > 0 => ~ConfigError

\* C29: the number of worker threads a stage launches is at least 1 and at
\* most 128, and a thread count of 0 in the settings becomes the hardware
\* concurrency.
C29_ThreadCountInRange ==
  /\ mainPc = "workers" => nLaunched \in 1..ThreadLimit
  /\ mainPc = "files" /\ mainEnv.NumberOfThread = 0 =>
       nThread = mainEnv.hardware_concurrency

\* C30: the process exits with code 0 on success and on cancellation, and
\* with code 1 whenever a configuration, file or validation error occurs,
\* errors raised as exceptions included: every run that has ended has
\* returned from main, with 1 if it had an error and with 0 if not.
C30_ExitCodes ==
  mainPc \in { "exited", "aborted", "killed" } =>
    /\ mainPc = "exited"
    /\ exitCode = IF ConfigError \/ mainRaised # "none" THEN 1 ELSE 0

(***************************************************************************)
(* Order of the hits of a chunk.                                           *)
(***************************************************************************)

\* C31 as claimed: after threshold and offset correction, the hit
\* timestamps of a chunk are strictly increasing when the coincidence
\* grouping begins.
C31_StrictlySorted ==
  \A c \in ChunkRecords :
    \A k \in 1..(Len(c.rawDataVec) - 1) :
      c.rawDataVec[k].fineTS < c.rawDataVec[k + 1].fineTS

\* C31 amended: the hit timestamps of a chunk are sorted in non-decreasing
\* order when the coincidence grouping begins; hits with equal corrected
\* timestamps stay next to each other.
C31_Sorted ==
  \A c \in ChunkRecords :
    \A k \in 1..(Len(c.rawDataVec) - 1) :
      c.rawDataVec[k].fineTS <= c.rawDataVec[k + 1].fineTS

\* A chunk read out of timestamp order that holds two hits of equal
\* corrected timestamp.
C31_Witness ==
  \E c \in ChunkRecords :
    /\ \E k \in 1..(Len(c.rawDataVec) - 1) :
         c.rawDataVec[k].fineTS = c.rawDataVec[k + 1].fineTS
    /\ \E k \in 1..(Len(c.rawDataVec) - 1) :
         c.rawDataVec[k].src[2] > c.rawDataVec[k + 1].src[2]

(***************************************************************************)
(* The histograms of the TimeAlignment workers.                            *)
(***************************************************************************)

\* C32: while the TimeAlignment workers run, no histogram is written by
\* more than one worker: in every step of the fill stage the histograms of
\* a worker change only in a chunk step of that worker itself, those of
\* every other worker stay as they are, and the global histograms are not
\* written.
C32_ExclusiveHistograms ==
  [][ taStage = "fill" /\ taStage' = "fill" =>
        /\ fHisto' = fHisto
        /\ \A w \in TAWorkers :
             fThreadHistograms'[w] # fThreadHistograms[w] =>
               /\ taPc[w] = "chunk"
               /\ taChunkStart'[w] = taChunkStart[w] + CHUNK_SIZE
               /\ \A v \in TAWorkers \ { w } :
                    fThreadHistograms'[v] = fThreadHistograms[v] ]_vars

\* Both workers have filled histograms of their own and are still running.
C32_Witness ==
  /\ taStage = "fill"
  /\ \A w \in TAWorkers :
       /\ fThreadHistograms[w] # NewHistograms
       /\ taPc[w] # "done"

\* The histograms one thread fills when it reads the whole file list in
\* list order, chunk after chunk.
RECURSIVE FillFromFile(_, _, _)
FillFromFile(entries, start, H) ==
  IF start >= Len(entries) THEN H
  ELSE FillFromFile(entries, start + CHUNK_SIZE, TAProcessChunk(entries, start, H))

RECURSIVE FillFromFiles(_, _, _)
FillFromFiles(files, k, H) ==
  IF k > Len(files) THEN H
  ELSE FillFromFiles(files, k + 1,
                     IF files[k].ok THEN FillFromFile(files[k].entries, 0, H) ELSE H)

\* C33: the merged TimeAlignment histograms are the same for every
\* assignment of files to workers and every interleaving of the workers'
\* claims: after an uncancelled fill they are the histograms a single
\* thread fills from the file list in list order.
C33_MergeIndependentOfSchedule ==
  taStage \in { "saved", "calculated", "loaded" } /\ ~taCancelled =>
    fHisto = FillFromFiles(taFiles, 1, NewHistograms)

\* An uncancelled fill in which each worker has claimed one file and filled
\* histograms from it.
C33_Witness ==
  /\ taStage = "saved"
  /\ ~taCancelled
  /\ \A w \in TAWorkers :
       /\ Len(taClaimLog[w]) = 1
       /\ taJoined[w] # NewHistograms

(***************************************************************************)
(* The L2 output shard against its L1 input shard.                         *)
(***************************************************************************)

\* The log records of the events that were filled, in the order of the log.
FilledRecords == SelectSeq(l2Log, LAMBDA r : r.filled)

\* C34: an L2 output shard is a subsequence of its input L1 shard: the
\* entries of the output tree are, in input order, the events the run has
\* filled, each with the trigger time and the hit list of the L1 event,
\* and the written file holds this tree.
C34_OutputIsSubsequence ==
  /\ Len(l2OutputTree) = Len(FilledRecords)
  /\ \A k \in 1..Len(FilledRecords) :
       /\ FilledRecords[k].iEve + 1 \in 1..Len(l2Input)
       /\ l2OutputTree[k].triggerTime = l2Input[FilledRecords[k].iEve + 1].triggerTime
       /\ l2OutputTree[k].eventDataVec = l2Input[FilledRecords[k].iEve + 1].eventDataVec
  /\ \A k \in 1..(Len(FilledRecords) - 1) :
       FilledRecords[k].iEve < FilledRecords[k + 1].iEve
  /\ l2pc = "done" /\ l2Run = 0 => l2OutputFile = l2OutputTree

\* A finished run that has dropped an event and kept a later one.
C34_Witness ==
  /\ l2pc = "done"
  /\ ~fCancelledL2
  /\ \E k \in 1..Len(l2OutputFile) :
       /\ l2OutputFile[k].eventDataVec # << >>
       /\ FilledRecords[k].iEve + 1 > k

\* The places <<worker, position>> of the local file lists that hold file f.
PlacesOf(f) ==
  { p \in UNION { { << w, k >> : k \in 1..Len(localFileList[w]) } : w \in Workers } :
      localFileList[p[1]][p[2]] = f }

\* C35: the L1 file partition is a disjoint cover: for every worker count
\* and every non-empty file list each file is assigned to exactly one
\* worker, once, also when there are more workers than files, and no local
\* list holds anything but a file of the list.
C35_PartitionIsDisjointCover ==
  nThreads > 0 =>
    /\ \A f \in 1..Len(fFileList) : Cardinality(PlacesOf(f)) = 1
    /\ \A w \in Workers : \A k \in 1..Len(localFileList[w]) :
         localFileList[w][k] \in 1..Len(fFileList)

\* More workers than files: a worker has no file, and two files went to
\* two workers.
C35_Witness ==
  /\ nThreads > Len(fFileList)
  /\ Len(fFileList) = 2
  /\ \E w \in Workers : localFileList[w] = << >>

(***************************************************************************)
(* Cancellation requests from the entry of BuildEvent on.                  *)
(***************************************************************************)

\* The reader threads of the run have been started and have all exited.
AllWorkersExited == nThreads > 0 /\ \A w \in Workers : pc[w] = "done"

\* C36: a cancellation request issued at any moment after BuildEvent has
\* been entered is never lost: once the cancellation flag is set it stays
\* set until all workers of the run have exited.
C36_CancelNeverLost ==
  [][ fCancelled /\ ~AllWorkersExited => fCancelled' ]_vars

(***************************************************************************)
(* Termination of the stages.                                              *)
(***************************************************************************)

\* C37: for every finite file list and without cancellation all worker
\* threads of a stage terminate and the stage call returns: unless the run
\* is cancelled, the L1 readers all exit, the L2 worker exits, and the
\* TimeAlignment workers leave the claim loop and FillHistograms saves the
\* merged histograms.
C37_StagesTerminate ==
  /\ <>(fCancelled \/ AllReadersDone)
  /\ <>(fCancelledL2 \/ l2pc = "done")
  /\ <>(taCancelled \/ taStage # "fill")

\* The rules a rule file declares, in the order of the file.
DeclaredIn(j) ==
  LoadConditions(j, 1, [counters |-> << >>, flags |-> << >>, accepts |-> << >>])

\* C38: after LoadL2Settings(f) has returned successfully, the counters,
\* flags and acceptance rules of the builder are exactly those declared in
\* f, whatever an earlier call has loaded.
C38_RulesAreThoseOfTheFile ==
  (loadLog # << >> /\ loadLog[Len(loadLog)].ok) =>
    LET declared == DeclaredIn(loadLog[Len(loadLog)].j)
    IN  /\ fCounterVec = declared.counters
        /\ fFlagVec = declared.flags
        /\ fDataAcceptanceVec = declared.accepts

\* The trigger hit buf[i] is abandoned: another trigger hit of the chunk
\* with the same or a higher ID lies less than the window away from it.
Abandoned(buf, i) ==
  \E j \in 1..Len(buf) :
    /\ j # i
    /\ IsTrigger(buf[j])
    /\ ChID(buf[j]) >= ChID(buf[i])
    /\ Abs(buf[j].fineTS - buf[i].fineTS) < fCoincidenceWindow

\* The places of the trigger hits of a chunk that are not abandoned, in the
\* order of the chunk.
KeptTriggers(buf) ==
  SelectSeq([i \in 1..Len(buf) |-> i],
            LAMBDA i : IsTrigger(buf[i]) /\ ~Abandoned(buf, i))

\* The entries the hits collected for the trigger hit buf[i] were read from.
OwnHits(buf, i) ==
  { buf[j].src : j \in { m \in 1..Len(buf) :
                           Abs(buf[m].fineTS - buf[i].fineTS) <= fCoincidenceWindow } }

\* C39: an abandoned trigger leaves no trace: the events of a chunk are
\* those of its trigger hits that are not abandoned, one each and in order,
\* and every event holds the hits collected for its own trigger, each once,
\* and nothing else.
C39_AbandonedLeavesNoTrace ==
  \A c \in ChunkRecords :
    LET buf == c.rawDataVec
        kept == KeptTriggers(buf)
    IN  /\ Len(c.events) = Len(kept)
        /\ \A k \in 1..Len(kept) :
             LET ev == c.events[k]
             IN  /\ TriggerOf(ev).src = buf[kept[k]].src
                 /\ ev.triggerTime = buf[kept[k]].fineTS
                 /\ Len(ev.eventDataVec) = Cardinality(OwnHits(buf, kept[k]))
                 /\ { h.src : h \in HitsOf(ev) } = OwnHits(buf, kept[k])

\* A chunk in which a trigger hit was abandoned after it had collected a
\* hit, and a later trigger hit was emitted as an event.
C39_Witness ==
  \E c \in ChunkRecords :
    \E i \in 1..Len(c.rawDataVec), j \in 1..Len(c.rawDataVec) :
      /\ i < j
      /\ IsTrigger(c.rawDataVec[i])
      /\ Abandoned(c.rawDataVec, i)
      /\ Cardinality(OwnHits(c.rawDataVec, i)) > 1
      /\ IsTrigger(c.rawDataVec[j])
      /\ ~Abandoned(c.rawDataVec, j)
      /\ c.events # << >>

====
